---- MODULE Spec2Model ----
(***************************************************************************)
(* Model of the puls-twin physiological-state pipeline:                    *)
(*   - AvatarStateManager  (src/src/avatar/state_manager.py)               *)
(*   - PulseSimulationController (src/src/pulse/simulation.py)             *)
(*   - WearableDataProcessor (src/src/wearable/processor.py)               *)
(*   - WearableTwinSystem  (src/src/system.py)                             *)
(* Floating point quantities are scaled to integers; the scale of each is  *)
(* stated where it is introduced.                                          *)
(***************************************************************************)
EXTENDS Integers, Sequences, FiniteSets, TLC

(***************************************************************************)
(* Bounds of the model.                                                    *)
(***************************************************************************)
MaxResolveCalls == 4
NumChannels == 2
MaxHistUpdates == 103
MaxSamplingUpdates == 1
MaxCoordStarts == 2
MaxStageUpdates == 3
MaxSmoothCalls == 6
MaxTime == 270
MaxHangoverTime == 60
MaxInterventionCalls == 2
MaxRecoveryHalfDays == 2
MaxRecoveryCalls == 3
MaxRecoverySteps == 3
MaxSplitCalls == 1
MaxTrendOld == 2
MaxTrendFalse == 19
MaxTrendTrue == 9
MaxRegistered == 2
MaxWebUpdates == 103
FreeWebUpdates == 2

(***************************************************************************)
(* Program constants.                                                      *)
(***************************************************************************)
max_history_length == 100

StateKeys == {"is_dizzy", "is_chill", "is_beast_mode"}

Min(a, b) == IF a < b THEN a ELSE b
Max(a, b) == IF a > b THEN a ELSE b

\* dict.get(key, False) on a dictionary of flags
Get(states, key) == IF key \in DOMAIN states THEN states[key] ELSE FALSE

\* every dictionary that maps some of the three flag names to a boolean
FlagDicts == UNION {[K -> BOOLEAN] : K \in SUBSET StateKeys}

VARIABLES
    \* ---- AvatarStateManager._determine_primary_state as a function call
    arg_states,      \* the argument of the last call
    ret_state,       \* its return value
    nCalls,          \* number of calls made
    \* ---- PulseSimulationController (data read by the display loop)
    latest_values,   \* self.latest_values
    current_states,  \* self.current_states
    thresholds,      \* self.thresholds
    sim_running,     \* self.running
    sim_pc,          \* position of the simulation thread (s_none: no thread yet)
    sim_caller,      \* position of the caller of start_simulation/stop_simulation
    simulation_lock, \* self.simulation_lock: "free" or the name of its holder
    last_update_set, \* FALSE while last_update is still 0.0
    sim_idx,         \* index in ReadOrder of the value being read
    sim_calls,       \* engine calls begun in the current tick, by kind
    eng_sample,      \* the engine: index of its current physiological state
    \* ---- WearableDataProcessor
    data_source,     \* self.data_source: "none" or "configured"
    proc_running,    \* self.running
    proc_pc,         \* position of the processing thread (p_none: no thread yet)
    proc_caller,     \* position of the caller of start_processing/stop_processing
    hr_buffer,       \* self.hr_buffer
    rr_buffer,       \* self.rr_buffer
    activity_buffer, \* self.activity_buffer
    wearable_data,   \* local wearable_data of _process_loop (<<>> for None)
    proc_actions,    \* the actions handed to the engine in the current tick
    \* ---- WearableTwinSystem
    sys_running,     \* self.running
    sys_caller,      \* position of the caller of start/stop
    simulation_thread, \* self.simulation_thread: id of the last thread, 0 if none
    pulse_engine,    \* self.pulse_engine: its physiological state, and cleared or not
    c_pc,            \* position of each simulation thread (c_none: not created)
    c_ch,            \* per thread: index of the channel of the update loop
    c_record,        \* per thread: the local state_record
    c_calls,         \* per thread: engine calls begun in the current tick, by kind
    \* ---- AvatarStateManager
    asm_running,     \* self.running
    disp_pc,         \* position of the display thread (d_none: no thread yet)
    disp_caller,     \* position of the caller of start_display/stop_display
    state_history,   \* self.state_history
    disp_values,     \* local physiological_values of _display_loop
    disp_states,     \* local states of _display_loop
    state_record,    \* local state_record of _update_avatar_state
    disp_ch,         \* index of the channel of the notification loop
    delivered,       \* channels invoked so far in the current broadcast
    raised,          \* channels that raised in the current broadcast
    raisedPrev,      \* channels that raised in the previous broadcast
    nUpdates,        \* number of _update_avatar_state calls (the clock of timestamps)
    \* ---- WearableDataProcessor._smooth_data as a function call on one buffer
    smooth_in,       \* the values passed so far, in call order
    smooth_out,      \* the values returned so far, in call order
    smooth_buf,      \* the buffer argument (a list, changed in place)
    \* ---- the clock
    clock,           \* time.time(), in seconds
    \* ---- WorkoutController
    w_engine,        \* self.engine: "present" or "none"
    w_active,        \* self.active
    w_intensity,     \* self.intensity, in thousandths
    w_end_time,      \* self.end_time
    w_duration_minutes, \* self.duration_minutes, in tenths of a minute
    w_start_time,    \* self.start_time
    w_workout_type,  \* self.workout_type
    w_ret,           \* the last start_workout/stop_workout call and its return value
    w_obs,           \* the last direct get_current_intensity call since the last
                     \* start_workout or stop_workout: what it saw and returned
    w_pc,            \* position of the caller of apply_to_engine
    w_local,         \* local intensity of apply_to_engine
    w_actions,       \* exercise actions handed to the engine by the last apply_to_engine
    w_apply_ret,     \* return value of the last apply_to_engine ("none" before it returns)
    \* ---- HangoverRecoveryController
    h_engine,        \* self.engine: "present" or "none"
    h_active,        \* self.active
    h_severity,      \* self.severity, in hundredths
    h_recovery_progress, \* self.recovery_progress
    h_start_time,    \* self.start_time
    h_last_update_time, \* self.last_update_time
    h_interventions, \* self.interventions, levels in hundredths
    h_last_actions,  \* self.last_actions
    h_pc,            \* position of the caller of apply_intervention
    h_arg,           \* arguments of the apply_intervention call in progress
    h_actions,       \* engine actions issued by the last start or apply_intervention
    h_ret,           \* the last call that returned and its return value
    h_update_ret,    \* the progress returned by the last update_recovery_progress
    h_calls,         \* number of apply_intervention calls made
    \* ---- AvatarStateManager.get_state_trend as a function call
    trend_history,   \* self.state_history at the call
    trend_args,      \* state_key and duration_seconds of the last call
    trend_ret,       \* its return value
    \* ---- PulseSimulationController.set_thresholds
    th_pending,      \* items of threshold_dict still to be processed by the call
    th_requested,    \* the thresholds asked for by the calls made so far
    \* ---- registration of output channels
    asm_output_channels, \* AvatarStateManager.output_channels
    sys_output_channels, \* WearableTwinSystem.output_channels
    reg_ret,         \* the last registration call and its return value
    \* ---- WebVisualizationOutputChannel
    web_values,      \* self.data['values']: per metric, the points of the series
    web_states,      \* self.data['states']
    web_delivered,   \* per series, every point delivered to it so far
    web_updates,     \* number of update_avatar_state calls
    web_outcome,     \* how the last call ended: "returned" or "raised"
    \* ---- a caller of AvatarStateManager.get_state_history
    hist_seen        \* number of records of the list the last call returned

resolveVars == <<arg_states, ret_state, nCalls>>
simDataVars == <<latest_values, current_states, thresholds>>
simCtlVars == <<sim_running, sim_pc, sim_caller, simulation_lock, last_update_set,
                sim_idx, sim_calls>>
simVars == <<simDataVars, simCtlVars>>
engVars == <<eng_sample>>
procVars == <<data_source, proc_running, proc_pc, proc_caller, hr_buffer, rr_buffer,
              activity_buffer, wearable_data, proc_actions>>
sysVars == <<sys_running, sys_caller, simulation_thread, pulse_engine, c_pc, c_ch,
             c_record, c_calls>>
dispVars == <<asm_running, disp_pc, disp_caller, state_history, disp_values,
              disp_states, state_record, disp_ch, delivered, raised, raisedPrev,
              nUpdates>>
smoothVars == <<smooth_in, smooth_out, smooth_buf>>
clockVars == <<clock>>
workoutVars == <<w_engine, w_active, w_intensity, w_end_time, w_duration_minutes,
                 w_start_time, w_workout_type, w_ret, w_obs, w_pc, w_local,
                 w_actions, w_apply_ret>>
hangoverVars == <<h_engine, h_active, h_severity, h_recovery_progress, h_start_time,
                  h_last_update_time, h_interventions, h_last_actions, h_pc,
                  h_arg, h_actions, h_ret, h_update_ret, h_calls>>
trendVars == <<trend_history, trend_args, trend_ret>>
thVars == <<th_pending, th_requested>>
regVars == <<asm_output_channels, sys_output_channels, reg_ret>>
webVars == <<web_values, web_states, web_delivered, web_updates, web_outcome>>
readVars == <<hist_seen>>
auxVars == <<trendVars, thVars, regVars, webVars, readVars>>
ctlVars == <<smoothVars, clockVars, workoutVars, hangoverVars, auxVars>>
vars == <<resolveVars, simVars, engVars, dispVars, procVars, sysVars, ctlVars>>

\* what the actions of one component leave alone
notResolve == <<simVars, engVars, dispVars, procVars, sysVars, ctlVars>>
notDisplay == <<resolveVars, simVars, engVars, procVars, sysVars, ctlVars>>
notStepper == <<resolveVars, dispVars, procVars, sysVars, ctlVars>>
notProcessor == <<resolveVars, simVars, engVars, dispVars, sysVars, ctlVars>>
pipelineVars == <<resolveVars, simVars, engVars, dispVars, procVars, sysVars>>
notSmooth == <<pipelineVars, clockVars, workoutVars, hangoverVars, auxVars>>
notWorkout == <<pipelineVars, smoothVars, hangoverVars, auxVars>>
notHangover == <<pipelineVars, smoothVars, workoutVars, auxVars>>
notClock == <<pipelineVars, smoothVars, workoutVars, hangoverVars, auxVars>>
mainVars == <<pipelineVars, smoothVars, clockVars, workoutVars, hangoverVars>>
notTrend == <<mainVars, thVars, regVars, webVars, readVars>>
notRegistration == <<mainVars, trendVars, thVars, webVars, readVars>>
notWeb == <<mainVars, trendVars, thVars, regVars, readVars>>
notRead == <<mainVars, trendVars, thVars, regVars, webVars>>
\* what set_thresholds and the stepper both leave alone
notStepperAux == <<resolveVars, dispVars, procVars, sysVars, smoothVars, clockVars,
                   workoutVars, hangoverVars, trendVars, regVars, webVars,
                   readVars>>
notSystem == <<resolveVars, simVars, engVars, dispVars, procVars, ctlVars>>

(***************************************************************************)
(* "while self.running:", the head of each of the four stage loops: whether  *)
(* another iteration begins                                                  *)
(***************************************************************************)
loop_goes_on_regardless(running) == TRUE

loop_goes_on(running) == running

(***************************************************************************)
(* AvatarStateManager._determine_primary_state                             *)
(***************************************************************************)
determine_primary_state_swapped(states) ==
    IF Get(states, "is_beast_mode") THEN "is_beast_mode"
    ELSE IF Get(states, "is_dizzy") THEN "is_dizzy"
    ELSE IF Get(states, "is_chill") THEN "is_chill"
    ELSE "neutral"

determine_primary_state(states) ==
    IF Get(states, "is_dizzy") THEN "is_dizzy"
    ELSE IF Get(states, "is_beast_mode") THEN "is_beast_mode"
    ELSE IF Get(states, "is_chill") THEN "is_chill"
    ELSE "neutral"

InitResolveVars ==
    /\ arg_states = [k \in {} |-> FALSE]
    /\ ret_state = "none"
    /\ nCalls = 0

CallDeterminePrimaryState ==
    /\ nCalls < MaxResolveCalls
    /\ \E s \in FlagDicts :
        /\ arg_states' = s
        /\ ret_state' = determine_primary_state(s)
    /\ nCalls' = nCalls + 1
    /\ UNCHANGED notResolve

(***************************************************************************)
(* PulseSimulationController.__init__: values, flags and thresholds.       *)
(* hrv and high_hrv_threshold are in units of 1/7200 ms, every other       *)
(* value in its own unit (bpm, mmHg, /min, %, L/min).                      *)
(***************************************************************************)
HrvUnit == 7200

InitSimData ==
    /\ latest_values = [heart_rate |-> 0, systolic_pressure |-> 0,
                        cardiac_output |-> 0, respiratory_rate |-> 0,
                        oxygen_saturation |-> 0, hrv |-> 0]
    /\ current_states = [is_dizzy |-> FALSE, is_chill |-> FALSE,
                         is_beast_mode |-> FALSE]
    /\ thresholds = [low_oxygen_threshold |-> 90,
                     high_hrv_threshold |-> 70 * HrvUnit,
                     elevated_cardiac_output |-> 6]

(***************************************************************************)
(* The engine: a black box whose physiological state is one of a few       *)
(* samples and changes when time is advanced.  Only the values that enter  *)
(* the derived quantities (hrv and the flags) are kept; the stepper reads  *)
(* diastolic and mean pressure, stroke volume, tidal volume and blood      *)
(* oxygen in the same way.                                                 *)
(***************************************************************************)
EngineSamples ==
    << [heart_rate |-> 180, systolic_pressure |-> 180, cardiac_output |-> 4,
        respiratory_rate |-> 30, oxygen_saturation |-> 85],
       [heart_rate |-> 156, systolic_pressure |-> 120, cardiac_output |-> 4,
        respiratory_rate |-> 12, oxygen_saturation |-> 95],
       [heart_rate |-> 180, systolic_pressure |-> 180, cardiac_output |-> 7,
        respiratory_rate |-> 30, oxygen_saturation |-> 95],
       [heart_rate |-> 180, systolic_pressure |-> 120, cardiac_output |-> 6,
        respiratory_rate |-> 21, oxygen_saturation |-> 90],
       [heart_rate |-> 72, systolic_pressure |-> 120, cardiac_output |-> 5,
        respiratory_rate |-> 12, oxygen_saturation |-> 97] >>

InitEngine == eng_sample = 2

\* the order in which _update_physiological_values reads the values
ReadOrder == <<"heart_rate", "systolic_pressure", "cardiac_output",
               "respiratory_rate", "oxygen_saturation">>

Clamp(x, lo, hi) == Min(hi, Max(lo, x))

\* _calculate_stress_level, in units of 1/3600: each component is clamped to
\* [0,1] (in units of 1/360) and weighted 0.5, 0.3, 0.2
calculate_stress_level(values) ==
    LET hr_component == Clamp(3 * (values.heart_rate - 60), 0, 360)
        bp_component == Clamp(6 * (values.systolic_pressure - 120), 0, 360)
        rr_component == Clamp(20 * (values.respiratory_rate - 12), 0, 360)
    IN  5 * hr_component + 3 * bp_component + 2 * rr_component

\* hrv = baseline_hrv + rest_level * (max_hrv - baseline_hrv), in 1/7200 ms,
\* with rest_level = 1 - min(1, stress)
compute_hrv(values) ==
    LET rest_level == 3600 - Min(3600, calculate_stress_level(values))
    IN  50 * HrvUnit + rest_level * 100

\* _compute_states: the three threshold comparisons
is_dizzy_inclusive(values, th) == values.oxygen_saturation <= th.low_oxygen_threshold

is_dizzy(values, th) == values.oxygen_saturation < th.low_oxygen_threshold

is_chill(values, th) == values.hrv > th.high_hrv_threshold

is_beast_mode(values, th) == values.cardiac_output > th.elevated_cardiac_output

FlagOrder == <<"is_dizzy", "is_chill", "is_beast_mode">>

compute_flag(name, values, th) ==
    CASE name = "is_dizzy" -> is_dizzy(values, th)
      [] name = "is_chill" -> is_chill(values, th)
      [] name = "is_beast_mode" -> is_beast_mode(values, th)

NoCalls == [advance |-> 0, sample |-> 0]

InitStepper ==
    /\ sim_running = FALSE
    /\ sim_pc = "s_none"
    /\ sim_caller = "idle"
    /\ simulation_lock = "free"
    /\ last_update_set = FALSE
    /\ sim_idx = 0
    /\ sim_calls = NoCalls

simulation_thread_alive == sim_pc \notin {"s_none", "s_done"}

\* start_simulation: a second call while the thread is alive only prints
StartSimulation ==
    /\ sim_caller = "idle"
    /\ IF simulation_thread_alive
       THEN UNCHANGED <<sim_running, sim_pc, last_update_set, sim_calls>>
       ELSE /\ sim_running' = TRUE
            /\ sim_pc' = "s_loop"
            /\ last_update_set' = FALSE
            /\ sim_calls' = NoCalls
    /\ UNCHANGED <<simDataVars, sim_caller, simulation_lock, sim_idx>>
    /\ UNCHANGED <<engVars, notStepper>>

\* stop_simulation: clear the flag, then join the thread (if any) for 3 seconds
StopSimulation ==
    /\ sim_caller = "idle"
    /\ sim_running' = FALSE
    /\ sim_caller' = IF sim_pc = "s_none" THEN "idle" ELSE "joining"
    /\ UNCHANGED <<simDataVars, sim_pc, simulation_lock, last_update_set,
                   sim_idx, sim_calls>>
    /\ UNCHANGED <<engVars, notStepper>>

\* join(timeout=3.0) returns: the thread has ended, or the timeout has expired
StopSimulationJoined ==
    /\ sim_caller = "joining"
    /\ sim_caller' = "idle"
    /\ UNCHANGED <<simDataVars, sim_running, sim_pc, simulation_lock,
                   last_update_set, sim_idx, sim_calls>>
    /\ UNCHANGED <<engVars, notStepper>>

\* while self.running:
StepperLoopHead ==
    /\ sim_pc = "s_loop"
    /\ sim_pc' = IF loop_goes_on(sim_running) THEN "s_lock" ELSE "s_done"
    /\ sim_calls' = NoCalls
    /\ UNCHANGED <<simDataVars, sim_running, sim_caller, simulation_lock,
                   last_update_set, sim_idx>>
    /\ UNCHANGED <<engVars, notStepper>>

\* with self.simulation_lock: the call of advance_time_s begins
StepperAcquire ==
    /\ sim_pc = "s_lock"
    /\ simulation_lock = "free"
    /\ simulation_lock' = "stepper"
    /\ sim_calls' = [sim_calls EXCEPT !.advance = @ + 1]
    /\ sim_pc' = "s_advance"
    /\ UNCHANGED <<simDataVars, sim_running, sim_caller, last_update_set, sim_idx>>
    /\ UNCHANGED <<engVars, notStepper>>

\* advance_time_s returns; the with statement releases the lock
StepperAdvanceReturn(samples) ==
    /\ sim_pc = "s_advance"
    /\ \E e \in samples : eng_sample' = e
    /\ simulation_lock' = "free"
    /\ sim_pc' = "s_check"
    /\ UNCHANGED <<simDataVars, sim_running, sim_caller, last_update_set,
                   sim_idx, sim_calls>>
    /\ UNCHANGED notStepper

\* where the simulation thread continues when advance_time_s has raised
after_advance_raise_exit == "s_done"

after_advance_raise == "s_errsleep"

\* advance_time_s raises: the lock is released, the except of the loop body
\* prints and sleeps
StepperAdvanceRaise ==
    /\ sim_pc = "s_advance"
    /\ simulation_lock' = "free"
    /\ sim_pc' = after_advance_raise
    /\ UNCHANGED <<simDataVars, sim_running, sim_caller, last_update_set,
                   sim_idx, sim_calls>>
    /\ UNCHANGED <<engVars, notStepper>>

\* if current_time - last_update >= update_interval: with last_update = 0.0 the
\* first tick always samples; _update_physiological_values begins with the
\* three get_..._system calls
StepperCheckDue ==
    /\ sim_pc = "s_check"
    /\ \E due \in BOOLEAN :
        /\ ~last_update_set => due
        /\ IF due
           THEN /\ sim_pc' = "s_systems"
                /\ sim_calls' = [sim_calls EXCEPT !.sample = @ + 1]
           ELSE /\ sim_pc' = "s_sleep"
                /\ UNCHANGED sim_calls
    /\ UNCHANGED <<simDataVars, sim_running, sim_caller, simulation_lock,
                   last_update_set, sim_idx>>
    /\ UNCHANGED <<engVars, notStepper>>

\* the get_..._system calls return
StepperSystems ==
    /\ sim_pc = "s_systems"
    /\ sim_pc' = "s_read"
    /\ sim_idx' = 1
    /\ UNCHANGED <<simDataVars, sim_running, sim_caller, simulation_lock,
                   last_update_set, sim_calls>>
    /\ UNCHANGED <<engVars, notStepper>>

\* self.latest_values[name] = <value read from the engine>
StepperReadValue ==
    /\ sim_pc = "s_read"
    /\ latest_values' = [latest_values EXCEPT
                           ![ReadOrder[sim_idx]] =
                               EngineSamples[eng_sample][ReadOrder[sim_idx]]]
    /\ IF sim_idx < Len(ReadOrder)
       THEN sim_idx' = sim_idx + 1 /\ sim_pc' = "s_read"
       ELSE sim_idx' = 0 /\ sim_pc' = "s_hrv"
    /\ UNCHANGED <<current_states, thresholds, sim_running, sim_caller,
                   simulation_lock, last_update_set, sim_calls>>
    /\ UNCHANGED <<engVars, notStepper>>

\* an engine read raises: the except of _update_physiological_values prints,
\* the values read so far stay, and _compute_states runs on what is there
StepperReadRaise ==
    /\ sim_pc \in {"s_systems", "s_read"}
    /\ sim_pc' = "s_flags"
    /\ sim_idx' = 1
    /\ UNCHANGED <<simDataVars, sim_running, sim_caller, simulation_lock,
                   last_update_set, sim_calls>>
    /\ UNCHANGED <<engVars, notStepper>>

\* self.latest_values['hrv'] = baseline_hrv + rest_level * (max_hrv - baseline_hrv)
StepperHrv ==
    /\ sim_pc = "s_hrv"
    /\ latest_values' = [latest_values EXCEPT !.hrv = compute_hrv(latest_values)]
    /\ sim_pc' = "s_flags"
    /\ sim_idx' = 1
    /\ UNCHANGED <<current_states, thresholds, sim_running, sim_caller,
                   simulation_lock, last_update_set, sim_calls>>
    /\ UNCHANGED <<engVars, notStepper>>

\* _compute_states: one assignment to self.current_states per step; after the
\* last one, last_update = current_time
StepperComputeState ==
    /\ sim_pc = "s_flags"
    /\ current_states' = [current_states EXCEPT
                            ![FlagOrder[sim_idx]] =
                                compute_flag(FlagOrder[sim_idx], latest_values,
                                             thresholds)]
    /\ IF sim_idx < Len(FlagOrder)
       THEN /\ sim_idx' = sim_idx + 1
            /\ UNCHANGED <<sim_pc, last_update_set>>
       ELSE /\ sim_idx' = 0
            /\ sim_pc' = "s_sleep"
            /\ last_update_set' = TRUE
    /\ UNCHANGED <<latest_values, thresholds, sim_running, sim_caller,
                   simulation_lock, sim_calls>>
    /\ UNCHANGED <<engVars, notStepper>>

\* time.sleep(time_step / 10), or time.sleep(0.1) in the except
StepperSleep ==
    /\ sim_pc \in {"s_sleep", "s_errsleep"}
    /\ sim_pc' = "s_loop"
    /\ UNCHANGED <<simDataVars, sim_running, sim_caller, simulation_lock,
                   last_update_set, sim_idx, sim_calls>>
    /\ UNCHANGED <<engVars, notStepper>>

StepperStep(samples) ==
    \/ StepperLoopHead
    \/ StepperAcquire
    \/ StepperAdvanceReturn(samples)
    \/ StepperAdvanceRaise
    \/ StepperCheckDue
    \/ StepperSystems
    \/ StepperReadValue
    \/ StepperReadRaise
    \/ StepperHrv
    \/ StepperComputeState
    \/ StepperSleep

StepperLifecycle ==
    \/ StartSimulation
    \/ StopSimulation
    \/ StopSimulationJoined

StepperSamples == 1..4

\* two samples that differ in every flag-relevant value
SamplingSamples == {1, 2}

(***************************************************************************)
(* AvatarStateManager                                                      *)
(***************************************************************************)
\* self.output_channels after NumChannels registrations, in registration order
output_channels == [i \in 1..NumChannels |-> i]

\* self.state_descriptions.get(state, "Unknown state")
state_description(state) ==
    CASE state = "is_dizzy" -> "Twin is dizzy"
      [] state = "is_chill" -> "Twin is chill"
      [] state = "is_beast_mode" -> "Twin is in beast mode"
      [] state = "neutral" -> "Twin is in a neutral state"
      [] OTHER -> "Unknown state"

\* round(v, 2) of a value in units of 1/7200: the nearest multiple of 72
round2(v) == ((v + 36) \div 72) * 72

\* the physiological_values of a record: floats rounded to two decimals
record_values(values) == [values EXCEPT !.hrv = round2(values.hrv)]

NoRecord == [timestamp |-> 0, primary_state |-> "neutral",
             state_description |-> state_description("neutral"),
             all_states |-> [k \in {} |-> FALSE],
             physiological_values |-> [k \in {} |-> 0]]

InitDisplay ==
    /\ asm_running = FALSE
    /\ disp_pc = "d_none"
    /\ disp_caller = "idle"
    /\ state_history = <<>>
    /\ disp_values = [k \in {} |-> 0]
    /\ disp_states = [k \in {} |-> FALSE]
    /\ state_record = NoRecord
    /\ disp_ch = 0
    /\ delivered = <<>>
    /\ raised = {}
    /\ raisedPrev = {}
    /\ nUpdates = 0

display_thread_alive == disp_pc \notin {"d_none", "d_done"}

\* start_display: a second call while the thread is alive only prints
StartDisplay ==
    /\ disp_caller = "idle"
    /\ IF display_thread_alive
       THEN UNCHANGED <<asm_running, disp_pc>>
       ELSE /\ asm_running' = TRUE
            /\ disp_pc' = "d_loop"
    /\ UNCHANGED <<notDisplay, disp_caller, state_history, disp_values, disp_states,
                   state_record, disp_ch, delivered, raised, raisedPrev, nUpdates>>

\* stop_display: clear the flag, then join the thread (if any) for 3 seconds
StopDisplay ==
    /\ disp_caller = "idle"
    /\ asm_running' = FALSE
    /\ disp_caller' = IF disp_pc = "d_none" THEN "idle" ELSE "joining"
    /\ UNCHANGED <<notDisplay, disp_pc, state_history, disp_values, disp_states,
                   state_record, disp_ch, delivered, raised, raisedPrev, nUpdates>>

\* join(timeout=3.0) returns: the thread has ended, or the timeout has expired
StopDisplayJoined ==
    /\ disp_caller = "joining"
    /\ disp_caller' = "idle"
    /\ UNCHANGED <<notDisplay, asm_running, disp_pc, state_history, disp_values, disp_states,
                   state_record, disp_ch, delivered, raised, raisedPrev, nUpdates>>

\* while self.running: (the model lets at most maxUpdates iterations begin)
DisplayLoopHead(maxUpdates) ==
    /\ disp_pc = "d_loop"
    /\ asm_running => nUpdates < maxUpdates
    /\ disp_pc' = IF loop_goes_on(asm_running) THEN "d_getvals" ELSE "d_done"
    /\ UNCHANGED <<notDisplay, asm_running, disp_caller, state_history, disp_values,
                   disp_states, state_record, disp_ch, delivered, raised,
                   raisedPrev, nUpdates>>

\* physiological_values = self.simulation.get_latest_values()
DisplayGetValues ==
    /\ disp_pc = "d_getvals"
    /\ disp_values' = latest_values
    /\ disp_pc' = "d_getstates"
    /\ UNCHANGED <<notDisplay, asm_running, disp_caller, state_history, disp_states,
                   state_record, disp_ch, delivered, raised, raisedPrev, nUpdates>>

\* states = self.simulation.get_current_states()
DisplayGetStates ==
    /\ disp_pc = "d_getstates"
    /\ disp_states' = current_states
    /\ disp_pc' = "d_update"
    /\ UNCHANGED <<notDisplay, asm_running, disp_caller, state_history, disp_values,
                   state_record, disp_ch, delivered, raised, raisedPrev, nUpdates>>

\* _update_avatar_state: build the record and append it to the history
make_record(states, values, now) ==
    [timestamp |-> now,
     primary_state |-> determine_primary_state(states),
     state_description |-> state_description(determine_primary_state(states)),
     all_states |-> states,
     physiological_values |-> record_values(values)]

DisplayAppend ==
    /\ disp_pc = "d_update"
    /\ nUpdates' = nUpdates + 1
    /\ state_record' = make_record(disp_states, disp_values, nUpdates + 1)
    /\ state_history' = Append(state_history, state_record')
    /\ disp_pc' = "d_evict"
    /\ UNCHANGED <<notDisplay, asm_running, disp_caller, disp_values, disp_states, disp_ch,
                   delivered, raised, raisedPrev>>

\* the length after the append at which the oldest record is evicted
evict_needed_off_by_one(history) == Len(history) > max_history_length + 1

evict_needed(history) == Len(history) > max_history_length

\* if len(self.state_history) > self.max_history_length: pop(0)
DisplayEvict ==
    /\ disp_pc = "d_evict"
    /\ state_history' = IF evict_needed(state_history)
                        THEN Tail(state_history) ELSE state_history
    /\ disp_ch' = 1
    /\ delivered' = <<>>
    /\ raisedPrev' = raised
    /\ raised' = {}
    /\ disp_pc' = IF NumChannels = 0 THEN "d_sleep" ELSE "d_notify"
    /\ UNCHANGED <<notDisplay, asm_running, disp_caller, disp_values, disp_states,
                   state_record, nUpdates>>

\* for channel in self.output_channels: channel.update_avatar_state(record)
DisplayChannelCall ==
    /\ disp_pc = "d_notify"
    /\ delivered' = Append(delivered, output_channels[disp_ch])
    /\ disp_pc' = "d_incall"
    /\ UNCHANGED <<notDisplay, asm_running, disp_caller, state_history, disp_values,
                   disp_states, state_record, disp_ch, raised, raisedPrev, nUpdates>>

\* where the display thread continues after channel i has returned or raised
after_channel(i) ==
    IF i < NumChannels THEN [pc |-> "d_notify", ch |-> i + 1]
    ELSE [pc |-> "d_sleep", ch |-> i]

\* a notification loop whose try encloses the whole loop: a raise ends it
after_channel_raise_abort(i) == [pc |-> "d_sleep", ch |-> i]

\* except Exception inside the loop: the loop goes on with the next channel
after_channel_raise(i) == after_channel(i)

DisplayChannelReturn ==
    /\ disp_pc = "d_incall"
    /\ disp_pc' = after_channel(disp_ch).pc
    /\ disp_ch' = after_channel(disp_ch).ch
    /\ UNCHANGED <<notDisplay, asm_running, disp_caller, state_history, disp_values,
                   disp_states, state_record, delivered, raised, raisedPrev, nUpdates>>

DisplayChannelRaise ==
    /\ disp_pc = "d_incall"
    /\ raised' = raised \cup {output_channels[disp_ch]}
    /\ disp_pc' = after_channel_raise(disp_ch).pc
    /\ disp_ch' = after_channel_raise(disp_ch).ch
    /\ UNCHANGED <<notDisplay, asm_running, disp_caller, state_history, disp_values,
                   disp_states, state_record, delivered, raisedPrev, nUpdates>>

\* time.sleep(update_interval)
DisplaySleep ==
    /\ disp_pc = "d_sleep"
    /\ disp_pc' = "d_loop"
    /\ UNCHANGED <<notDisplay, asm_running, disp_caller, state_history, disp_values,
                   disp_states, state_record, disp_ch, delivered, raised,
                   raisedPrev, nUpdates>>

DisplayStep(maxUpdates) ==
    \/ DisplayLoopHead(maxUpdates)
    \/ DisplayGetValues
    \/ DisplayGetStates
    \/ DisplayAppend
    \/ DisplayEvict
    \/ DisplayChannelCall
    \/ DisplayChannelReturn
    \/ DisplayChannelRaise
    \/ DisplaySleep

DisplayLifecycle ==
    \/ StartDisplay
    \/ StopDisplay
    \/ StopDisplayJoined

(***************************************************************************)
(* WearableDataProcessor.  Heart and respiratory rate are whole numbers,    *)
(* the activity level is in tenths of a MET.  A smoothed value is the       *)
(* fraction sum/n of the buffer, an exercise intensity the fraction num/den.*)
(***************************************************************************)
buffer_size == 5

RECURSIVE SeqSum(_)
SeqSum(q) == IF q = <<>> THEN 0 ELSE Head(q) + SeqSum(Tail(q))

smooth_buffer_evicts_early(value, buffer) ==
    LET appended == Append(buffer, value)
    IN  IF Len(appended) >= buffer_size THEN Tail(appended) ELSE appended

\* _smooth_data: the buffer after the append and the eviction of the oldest
smooth_buffer(value, buffer) ==
    LET appended == Append(buffer, value)
    IN  IF Len(appended) > buffer_size THEN Tail(appended) ELSE appended

\* _smooth_data: the value returned, sum(buffer) / len(buffer)
smooth_value(value, buffer) ==
    [sum |-> SeqSum(smooth_buffer(value, buffer)),
     n |-> Len(smooth_buffer(value, buffer))]

\* _set_metabolic_demand: intensity = min(1.0, (met_value - 1) / 9.0), for
\* met_value = sum / (10 n)
exercise_intensity(met) ==
    IF met.sum - 10 * met.n > 90 * met.n
    THEN [num |-> 1, den |-> 1]
    ELSE [num |-> met.sum - 10 * met.n, den |-> 90 * met.n]

\* the values fed to one buffer
SmoothInputs == {10, 20, 30, 40, 50, 60}

InitSmooth ==
    /\ smooth_in = <<>>
    /\ smooth_out = <<>>
    /\ smooth_buf = <<>>

\* one call _smooth_data(value, buffer)
CallSmoothData ==
    /\ Len(smooth_in) < MaxSmoothCalls
    /\ \E value \in SmoothInputs :
          /\ smooth_in' = Append(smooth_in, value)
          /\ smooth_buf' = smooth_buffer(value, smooth_buf)
          /\ smooth_out' = Append(smooth_out, smooth_value(value, smooth_buf))
    /\ UNCHANGED notSmooth

\* the mock data of _fetch_wearable_data (drawn at random by the code)
MockData ==
    { [heart_rate |-> 72, respiratory_rate |-> 15, activity_level |-> 12],
      [heart_rate |-> 65, respiratory_rate |-> 14, activity_level |-> 5],
      [heart_rate |-> 150, respiratory_rate |-> 28, activity_level |-> 120] }

InitProcessor ==
    /\ data_source \in {"none", "configured"}
    /\ proc_running = FALSE
    /\ proc_pc = "p_none"
    /\ proc_caller = "idle"
    /\ hr_buffer = <<>>
    /\ rr_buffer = <<>>
    /\ activity_buffer = <<>>
    /\ wearable_data = <<>>
    /\ proc_actions = <<>>

processing_thread_alive == proc_pc \notin {"p_none", "p_done"}

\* start_processing: a second call while the thread is alive only prints
StartProcessing ==
    /\ proc_caller = "idle"
    /\ IF processing_thread_alive
       THEN UNCHANGED <<proc_running, proc_pc>>
       ELSE /\ proc_running' = TRUE
            /\ proc_pc' = "p_loop"
    /\ UNCHANGED <<data_source, proc_caller, hr_buffer, rr_buffer, activity_buffer,
                   wearable_data, proc_actions>>
    /\ UNCHANGED notProcessor

\* stop_processing: clear the flag, then join the thread (if any) for 3 seconds
StopProcessing ==
    /\ proc_caller = "idle"
    /\ proc_running' = FALSE
    /\ proc_caller' = IF proc_pc = "p_none" THEN "idle" ELSE "joining"
    /\ UNCHANGED <<data_source, proc_pc, hr_buffer, rr_buffer, activity_buffer,
                   wearable_data, proc_actions>>
    /\ UNCHANGED notProcessor

\* join(timeout=3.0) returns: the thread has ended, or the timeout has expired
StopProcessingJoined ==
    /\ proc_caller = "joining"
    /\ proc_caller' = "idle"
    /\ UNCHANGED <<data_source, proc_running, proc_pc, hr_buffer, rr_buffer,
                   activity_buffer, wearable_data, proc_actions>>
    /\ UNCHANGED notProcessor

\* while self.running:
ProcLoopHead ==
    /\ proc_pc = "p_loop"
    /\ proc_pc' = IF loop_goes_on(proc_running) THEN "p_fetch" ELSE "p_done"
    /\ proc_actions' = <<>>
    /\ UNCHANGED <<data_source, proc_running, proc_caller, hr_buffer, rr_buffer,
                   activity_buffer, wearable_data>>
    /\ UNCHANGED notProcessor

\* _fetch_wearable_data: mock data when no data source is configured, None
\* otherwise; then "if wearable_data and self.engine"
ProcFetch(mock) ==
    /\ proc_pc = "p_fetch"
    /\ IF data_source = "none"
       THEN /\ \E d \in mock : wearable_data' = d
            /\ proc_pc' = "p_update"
       ELSE /\ wearable_data' = <<>>
            /\ proc_pc' = "p_sleep"
    /\ UNCHANGED <<data_source, proc_running, proc_caller, hr_buffer, rr_buffer,
                   activity_buffer, proc_actions>>
    /\ UNCHANGED notProcessor

\* the except branch of _process_loop, reached when the fetch raises (the
\* fetch is the method to override with a real source)
after_fetch_raise_exit == "p_done"

after_fetch_raise == "p_errsleep"

\* (the local wearable_data is not read again before the next fetch)
ProcFetchRaise ==
    /\ proc_pc = "p_fetch"
    /\ wearable_data' = <<>>
    /\ proc_pc' = after_fetch_raise
    /\ UNCHANGED <<data_source, proc_running, proc_caller, hr_buffer, rr_buffer,
                   activity_buffer, proc_actions>>
    /\ UNCHANGED notProcessor

\* time.sleep(1) of the except branch
ProcErrSleep ==
    /\ proc_pc = "p_errsleep"
    /\ proc_pc' = "p_loop"
    /\ UNCHANGED <<data_source, proc_running, proc_caller, hr_buffer, rr_buffer,
                   activity_buffer, wearable_data, proc_actions>>
    /\ UNCHANGED notProcessor

\* hr = self._smooth_data(...); _set_heart_rate(hr): execute_action begins
ProcSetHeartRate ==
    /\ proc_pc = "p_update"
    /\ hr_buffer' = smooth_buffer(wearable_data.heart_rate, hr_buffer)
    /\ proc_actions' = Append(proc_actions,
           [kind |-> "heart_rate",
            value |-> smooth_value(wearable_data.heart_rate, hr_buffer)])
    /\ proc_pc' = "p_hr"
    /\ UNCHANGED <<data_source, proc_running, proc_caller, rr_buffer,
                   activity_buffer, wearable_data>>
    /\ UNCHANGED notProcessor

\* execute_action has returned or raised (caught in _set_heart_rate);
\* rr = self._smooth_data(...); _set_respiratory_rate(rr): execute_action begins
ProcSetRespiratoryRate ==
    /\ proc_pc = "p_hr"
    /\ rr_buffer' = smooth_buffer(wearable_data.respiratory_rate, rr_buffer)
    /\ proc_actions' = Append(proc_actions,
           [kind |-> "respiratory_rate",
            value |-> smooth_value(wearable_data.respiratory_rate, rr_buffer)])
    /\ proc_pc' = "p_rr"
    /\ UNCHANGED <<data_source, proc_running, proc_caller, hr_buffer,
                   activity_buffer, wearable_data>>
    /\ UNCHANGED notProcessor

\* execute_action has returned or raised (caught in _set_respiratory_rate);
\* activity = self._smooth_data(...); _set_metabolic_demand(activity):
\* get_patient and execute_action begin
ProcSetMetabolicDemand ==
    /\ proc_pc = "p_rr"
    /\ activity_buffer' = smooth_buffer(wearable_data.activity_level, activity_buffer)
    /\ proc_actions' = Append(proc_actions,
           [kind |-> "exercise",
            value |-> exercise_intensity(
                          smooth_value(wearable_data.activity_level, activity_buffer))])
    /\ proc_pc' = "p_ex"
    /\ UNCHANGED <<data_source, proc_running, proc_caller, hr_buffer, rr_buffer,
                   wearable_data>>
    /\ UNCHANGED notProcessor

\* execute_action has returned or raised (caught in _set_metabolic_demand)
ProcActionsDone ==
    /\ proc_pc = "p_ex"
    /\ proc_pc' = "p_sleep"
    /\ UNCHANGED <<data_source, proc_running, proc_caller, hr_buffer, rr_buffer,
                   activity_buffer, wearable_data, proc_actions>>
    /\ UNCHANGED notProcessor

\* time.sleep(interval)
ProcSleep ==
    /\ proc_pc = "p_sleep"
    /\ proc_pc' = "p_loop"
    /\ UNCHANGED <<data_source, proc_running, proc_caller, hr_buffer, rr_buffer,
                   activity_buffer, wearable_data, proc_actions>>
    /\ UNCHANGED notProcessor

ProcStep(mock) ==
    \/ ProcLoopHead
    \/ ProcFetch(mock)
    \/ ProcFetchRaise
    \/ ProcErrSleep
    \/ ProcSetHeartRate
    \/ ProcSetRespiratoryRate
    \/ ProcSetMetabolicDemand
    \/ ProcActionsDone
    \/ ProcSleep

ProcLifecycle ==
    \/ StartProcessing
    \/ StopProcessing
    \/ StopProcessingJoined

(***************************************************************************)
(* The clock read by time.time(): seconds, advancing in steps of            *)
(* TickSeconds.                                                             *)
(***************************************************************************)
TickSeconds == 30

InitClock == clock = 0

Tick ==
    /\ clock < MaxTime
    /\ clock' = clock + TickSeconds
    /\ UNCHANGED notClock

(***************************************************************************)
(* WorkoutController.  Intensities are in thousandths, durations in tenths  *)
(* of a minute, times in seconds.  A value returned by                      *)
(* get_current_intensity is the fraction num/den of thousandths.            *)
(***************************************************************************)
WorkoutTypes == {"constant", "interval", "ramp_up", "ramp_down", "yoga"}
IntensityInputs == {-200, 500, 1500}
DurationInputs == {-10, 5, 40}

Zero == [num |-> 0, den |-> 1]
NoObs == [called |-> FALSE]
NoRet == [op |-> "none", value |-> FALSE]

\* WorkoutController(pulse_engine): reset(), as called by __init__
InitWorkout ==
    /\ w_engine = "present"
    /\ w_active = FALSE
    /\ w_intensity = 0
    /\ w_end_time = 0
    /\ w_duration_minutes = 0
    /\ w_start_time = 0
    /\ w_workout_type = "none"
    /\ w_ret = NoRet
    /\ w_obs = NoObs
    /\ w_pc = "w_idle"
    /\ w_local = Zero
    /\ w_actions = <<>>
    /\ w_apply_ret = "none"

\* a new WorkoutController, with or without an engine, takes the place of a
\* controller that has not been used
NewWorkoutController ==
    /\ w_workout_type = "none" /\ w_ret = NoRet /\ w_obs = NoObs
    /\ w_pc = "w_idle" /\ w_apply_ret = "none"
    /\ w_engine' \in {"present", "none"}
    /\ w_engine' # w_engine
    /\ UNCHANGED <<w_active, w_intensity, w_end_time, w_duration_minutes,
                   w_start_time, w_workout_type, w_ret, w_obs, w_pc, w_local,
                   w_actions, w_apply_ret>>
    /\ UNCHANGED <<clockVars, notWorkout>>

\* intensity = max(0.0, min(1.0, intensity))
clamp_intensity_upper_only(intensity) == Min(1000, intensity)

clamp_intensity(intensity) == Max(0, Min(1000, intensity))

\* duration_minutes = max(0.1, duration_minutes)
clamp_duration(duration_minutes) == Max(1, duration_minutes)

\* self.start_time + (duration_minutes * 60), duration in tenths of a minute
compute_end_time(start_time, duration_minutes) ==
    start_time + (duration_minutes * 60) \div 10

StartWorkout(types, intensities, durations) ==
    \E workout_type \in types, intensity \in intensities,
       duration_minutes \in durations :
        /\ IF w_engine = "none"
           THEN /\ w_ret' = [op |-> "start_workout", value |-> FALSE]
                /\ UNCHANGED <<w_active, w_intensity, w_duration_minutes,
                               w_start_time, w_end_time, w_workout_type>>
           ELSE /\ w_active' = TRUE
                /\ w_intensity' = clamp_intensity(intensity)
                /\ w_duration_minutes' = clamp_duration(duration_minutes)
                /\ w_start_time' = clock
                /\ w_end_time' = compute_end_time(clock, clamp_duration(duration_minutes))
                /\ w_workout_type' = workout_type
                /\ w_ret' = [op |-> "start_workout", value |-> TRUE]
        /\ w_obs' = NoObs
        /\ UNCHANGED <<w_engine, w_pc, w_local, w_actions, w_apply_ret>>
        /\ UNCHANGED <<clockVars, notWorkout>>

StopWorkout ==
    /\ w_active' = FALSE
    /\ w_ret' = [op |-> "stop_workout", value |-> w_active]
    /\ w_obs' = NoObs
    /\ UNCHANGED <<w_engine, w_intensity, w_end_time, w_duration_minutes,
                   w_start_time, w_workout_type, w_pc, w_local, w_actions,
                   w_apply_ret>>
    /\ UNCHANGED <<clockVars, notWorkout>>

\* get_current_intensity: the value returned when the workout is active and
\* not over, elapsed seconds after its start
interval_duration == 120

\* interval_phase = (elapsed % 120) / 120; full if below 0.5, else 0.4 * full
interval_intensity(intensity, elapsed) ==
    IF 10 * (elapsed % interval_duration) < 5 * interval_duration
    THEN [num |-> intensity, den |-> 1]
    ELSE [num |-> 4 * intensity, den |-> 10]

\* fraction = min(1.0, elapsed / total_duration)
elapsed_fraction(elapsed, total_duration) ==
    IF elapsed > total_duration
    THEN [num |-> 1, den |-> 1]
    ELSE [num |-> elapsed, den |-> total_duration]

\* (0.2 * intensity) + (0.8 * intensity * fraction)
ramp_up_intensity_from_full(intensity, fraction) ==
    [num |-> 10 * intensity * fraction.den + 8 * intensity * fraction.num,
     den |-> 10 * fraction.den]

ramp_up_intensity(intensity, fraction) ==
    [num |-> 2 * intensity * fraction.den + 8 * intensity * fraction.num,
     den |-> 10 * fraction.den]

\* intensity - (0.8 * intensity * fraction)
ramp_down_intensity(intensity, fraction) ==
    [num |-> 10 * intensity * fraction.den - 8 * intensity * fraction.num,
     den |-> 10 * fraction.den]

active_intensity(workout_type, intensity, elapsed, total_duration) ==
    CASE workout_type = "constant" -> [num |-> intensity, den |-> 1]
      [] workout_type = "interval" -> interval_intensity(intensity, elapsed)
      [] workout_type = "ramp_up" ->
            ramp_up_intensity(intensity, elapsed_fraction(elapsed, total_duration))
      [] workout_type = "ramp_down" ->
            ramp_down_intensity(intensity, elapsed_fraction(elapsed, total_duration))
      [] OTHER -> [num |-> intensity, den |-> 1]

\* "if current_time >= self.end_time": the workout is over
workout_over(current_time, end_time) == current_time >= end_time

\* the value get_current_intensity returns in the current state
current_intensity ==
    IF ~w_active \/ workout_over(clock, w_end_time)
    THEN Zero
    ELSE active_intensity(w_workout_type, w_intensity, clock - w_start_time,
                          w_end_time - w_start_time)

\* self.active after get_current_intensity: cleared when the workout is over
active_after_get_kept == w_active

active_after_get == w_active /\ ~workout_over(clock, w_end_time)

\* what a call of get_current_intensity saw and returned
observation ==
    [called |-> TRUE, was_active |-> w_active, workout_type |-> w_workout_type,
     intensity |-> w_intensity, elapsed |-> clock - w_start_time,
     total |-> w_end_time - w_start_time, value |-> current_intensity]

\* get_current_intensity, the whole body under self.lock
GetCurrentIntensity ==
    /\ w_obs' = observation
    /\ w_active' = active_after_get
    /\ UNCHANGED <<w_engine, w_intensity, w_end_time, w_duration_minutes,
                   w_start_time, w_workout_type, w_ret, w_pc, w_local, w_actions,
                   w_apply_ret>>
    /\ UNCHANGED <<clockVars, notWorkout>>

\* "if intensity > 0.001"
exceeds_epsilon_or_equal(intensity) == intensity.num >= intensity.den

exceeds_epsilon(intensity) == intensity.num > intensity.den

\* apply_to_engine up to the return of get_current_intensity; without an
\* engine it returns False at once
ApplyGetIntensity ==
    /\ w_pc = "w_idle"
    /\ w_actions' = <<>>
    /\ IF w_engine = "none"
       THEN /\ w_apply_ret' = "False"
            /\ UNCHANGED <<w_obs, w_active, w_pc, w_local>>
       ELSE /\ w_apply_ret' = "none"
            /\ UNCHANGED w_obs
            /\ w_active' = active_after_get
            /\ w_local' = current_intensity
            /\ w_pc' = "w_got"
    /\ UNCHANGED <<w_engine, w_intensity, w_end_time, w_duration_minutes,
                   w_start_time, w_workout_type, w_ret>>
    /\ UNCHANGED <<clockVars, notWorkout>>

\* the intensity is not above 0.001: return False
ApplySkip ==
    /\ w_pc = "w_got"
    /\ ~exceeds_epsilon(w_local)
    /\ w_apply_ret' = "False"
    /\ w_pc' = "w_idle"
    /\ UNCHANGED <<w_engine, w_active, w_intensity, w_end_time, w_duration_minutes,
                   w_start_time, w_workout_type, w_ret, w_obs, w_local, w_actions>>
    /\ UNCHANGED <<clockVars, notWorkout>>

\* self.engine.process_action(exercise) begins
ApplySubmit ==
    /\ w_pc = "w_got"
    /\ exceeds_epsilon(w_local)
    /\ w_actions' = Append(w_actions, [kind |-> "exercise", intensity |-> w_local])
    /\ w_pc' = "w_incall"
    /\ UNCHANGED <<w_engine, w_active, w_intensity, w_end_time, w_duration_minutes,
                   w_start_time, w_workout_type, w_ret, w_obs, w_local, w_apply_ret>>
    /\ UNCHANGED <<clockVars, notWorkout>>

\* process_action returns (return True) or raises (logged, return False)
ApplyReturn ==
    /\ w_pc = "w_incall"
    /\ w_apply_ret' \in {"True", "False"}
    /\ w_pc' = "w_idle"
    /\ UNCHANGED <<w_engine, w_active, w_intensity, w_end_time, w_duration_minutes,
                   w_start_time, w_workout_type, w_ret, w_obs, w_local, w_actions>>
    /\ UNCHANGED <<clockVars, notWorkout>>

ApplyToEngine ==
    \/ ApplyGetIntensity
    \/ ApplySkip
    \/ ApplySubmit
    \/ ApplyReturn

(***************************************************************************)
(* HangoverRecoveryController.  Severity and intervention levels are in     *)
(* hundredths, rates in thousandths of mL/s, volumes in mL.  Every method   *)
(* body under self.lock is one step; apply_intervention tests self.active   *)
(* before it takes the lock, which makes it two.                            *)
(***************************************************************************)
Levers == {"hydration", "electrolytes", "nutrients", "rest", "exercise", "medication"}
TrackedActions == {"dehydration", "hydration", "electrolytes", "nutrients", "medication"}
SeverityInputs == {-20, 0, 1, 70, 150}
InterventionTypes == {"hydration", "electrolytes", "nutrients", "massage"}
LevelInputs == {5, 50, 150}
NoArg == [intervention_type |-> "none", level |-> 0]

\* HangoverRecoveryController(pulse_engine): reset(), as called by __init__
InitHangover ==
    /\ h_engine = "present"
    /\ h_active = FALSE
    /\ h_severity = 0
    /\ h_recovery_progress = Zero
    /\ h_start_time = 0
    /\ h_last_update_time = 0
    /\ h_interventions = [k \in Levers |-> 0]
    /\ h_last_actions = [k \in TrackedActions |-> 0]
    /\ h_pc = "h_idle"
    /\ h_arg = NoArg
    /\ h_actions = <<>>
    /\ h_ret = NoRet
    /\ h_update_ret = Zero
    /\ h_calls = 0

\* a new HangoverRecoveryController, with or without an engine, takes the
\* place of a controller that has not been used
NewHangoverController ==
    /\ h_ret = NoRet /\ h_pc = "h_idle"
    /\ h_engine' \in {"present", "none"}
    /\ h_engine' # h_engine
    /\ UNCHANGED <<h_active, h_severity, h_recovery_progress, h_start_time,
                   h_last_update_time, h_interventions, h_last_actions, h_pc,
                   h_arg, h_actions, h_ret, h_update_ret, h_calls>>
    /\ UNCHANGED <<clockVars, notHangover>>

clamp_unit_lower_only(x) == Max(0, x)

\* severity = max(0.0, min(1.0, severity)); level likewise
clamp_unit(x) == Max(0, Min(100, x))

\* the attribute _apply_dehydration reads the engine from: __init__ assigns
\* self.engine, _apply_dehydration reads self.pulse_engine
dehydration_engine_attr_assigned == "engine"

dehydration_engine_attr == "pulse_engine"

\* _apply_dehydration as called by _apply_initial_hangover_effects, whose
\* except branch catches the AttributeError of an attribute never assigned:
\* the actions handed to the engine
apply_dehydration(severity) ==
    IF dehydration_engine_attr # "engine"
    THEN <<>>
    ELSE IF h_engine = "none" \/ severity < 1
         THEN <<>>
         ELSE <<[kind |-> "hemorrhage", rate |-> 100 + 4 * severity]>>

\* "for key in self.interventions: self.interventions[key] = 0.0"
cleared_interventions_kept(levels) == levels

cleared_interventions(levels) == [k \in DOMAIN levels |-> 0]

\* start_hangover_simulation
StartHangoverSimulation(severities) ==
    \E severity \in severities :
        /\ IF h_engine = "none"
           THEN /\ h_ret' = [op |-> "start_hangover_simulation", value |-> FALSE]
                /\ UNCHANGED <<h_active, h_severity, h_recovery_progress,
                               h_start_time, h_last_update_time, h_interventions,
                               h_last_actions, h_actions>>
           ELSE /\ h_active' = TRUE
                /\ h_severity' = clamp_unit(severity)
                /\ h_recovery_progress' = Zero
                /\ h_start_time' = clock
                /\ h_last_update_time' = clock
                /\ h_interventions' = cleared_interventions(h_interventions)
                /\ h_last_actions' = [k \in TrackedActions |-> 0]
                /\ h_actions' = apply_dehydration(clamp_unit(severity))
                /\ h_ret' = [op |-> "start_hangover_simulation", value |-> TRUE]
        /\ UNCHANGED <<h_engine, h_pc, h_arg, h_update_ret, h_calls>>
        /\ UNCHANGED <<clockVars, notHangover>>

\* stop_simulation
StopHangoverSimulation ==
    /\ h_active' = FALSE
    /\ h_ret' = [op |-> "stop_simulation", value |-> h_active]
    /\ UNCHANGED <<h_engine, h_severity, h_recovery_progress, h_start_time,
                   h_last_update_time, h_interventions, h_last_actions, h_pc,
                   h_arg, h_actions, h_update_ret, h_calls>>
    /\ UNCHANGED <<clockVars, notHangover>>

\* apply_intervention: "if not self.active: return False", before the lock
InterventionCheckActive(types, levels, maxCalls) ==
    /\ h_pc = "h_idle"
    /\ h_calls < maxCalls
    /\ h_calls' = h_calls + 1
    /\ \E intervention_type \in types, level \in levels :
          IF h_active
          THEN /\ h_pc' = "h_lock"
               /\ h_arg' = [intervention_type |-> intervention_type, level |-> level]
               /\ UNCHANGED <<h_ret, h_actions>>
          ELSE /\ h_ret' = [op |-> "apply_intervention", value |-> FALSE]
               /\ h_actions' = <<>>
               /\ UNCHANGED <<h_pc, h_arg>>
    /\ UNCHANGED <<h_engine, h_active, h_severity, h_recovery_progress,
                   h_start_time, h_last_update_time, h_interventions,
                   h_last_actions, h_update_ret>>
    /\ UNCHANGED <<clockVars, notHangover>>

\* the engine actions of _apply_hydration_intervention and
\* _apply_electrolyte_intervention (nutrients and medication issue none)
intervention_actions(intervention_type, level) ==
    IF h_engine = "none" \/ level < 10
    THEN <<>>
    ELSE CASE intervention_type = "hydration" ->
                <<[kind |-> "fluid_administration", volume |-> 500 + 15 * level,
                   rate |-> 2000 + 80 * level]>>
           [] intervention_type = "electrolytes" ->
                <<[kind |-> "substance_infusion", concentration |-> 5 * level,
                   rate |-> 5000]>>
           [] OTHER -> <<>>

\* self.last_actions after _apply_nutrient_intervention / _apply_medication_intervention
intervention_last_actions(intervention_type, level) ==
    IF intervention_type \in {"nutrients", "medication"}
       /\ level >= 10 /\ h_engine # "none"
    THEN [h_last_actions EXCEPT ![intervention_type] = clock]
    ELSE h_last_actions

\* apply_intervention: the body under self.lock
InterventionLocked ==
    /\ h_pc = "h_lock"
    /\ IF h_arg.intervention_type \notin Levers
       THEN /\ h_ret' = [op |-> "apply_intervention", value |-> FALSE]
            /\ h_actions' = <<>>
            /\ UNCHANGED <<h_interventions, h_last_actions>>
       ELSE /\ h_interventions' =
                  [h_interventions EXCEPT ![h_arg.intervention_type] =
                                              clamp_unit(h_arg.level)]
            /\ h_actions' = intervention_actions(h_arg.intervention_type,
                                                 clamp_unit(h_arg.level))
            /\ h_last_actions' = intervention_last_actions(h_arg.intervention_type,
                                                           clamp_unit(h_arg.level))
            /\ h_ret' = [op |-> "apply_intervention", value |-> TRUE]
    /\ h_pc' = "h_idle"
    /\ h_arg' = NoArg
    /\ UNCHANGED <<h_engine, h_active, h_severity, h_recovery_progress,
                   h_start_time, h_last_update_time, h_update_ret, h_calls>>
    /\ UNCHANGED <<clockVars, notHangover>>

\* The same body with the engine call as a step of its own: the helper calls
\* self.engine.process_action inside "with self.lock" and the call returns (or
\* raises, which the helper catches) before the lock is released.
hangover_in_engine == h_pc = "h_engine"

\* self.lock is held across steps only by a caller inside that engine call;
\* every other body under the lock is one step
hangover_lock_held == h_pc \in {"h_engine"}

\* the body up to the beginning of process_action
InterventionEngineCall ==
    /\ h_pc = "h_lock"
    /\ h_arg.intervention_type \in Levers
    /\ intervention_actions(h_arg.intervention_type, clamp_unit(h_arg.level)) # <<>>
    /\ h_interventions' =
          [h_interventions EXCEPT ![h_arg.intervention_type] = clamp_unit(h_arg.level)]
    /\ h_actions' = intervention_actions(h_arg.intervention_type,
                                         clamp_unit(h_arg.level))
    /\ h_last_actions' = intervention_last_actions(h_arg.intervention_type,
                                                   clamp_unit(h_arg.level))
    /\ h_pc' = "h_engine"
    /\ UNCHANGED <<h_engine, h_active, h_severity, h_recovery_progress,
                   h_start_time, h_last_update_time, h_arg, h_ret, h_update_ret,
                   h_calls>>
    /\ UNCHANGED <<clockVars, notHangover>>

\* the body of a call that reaches no process_action
InterventionNoEngineCall ==
    /\ h_pc = "h_lock"
    /\ \/ h_arg.intervention_type \notin Levers
       \/ intervention_actions(h_arg.intervention_type, clamp_unit(h_arg.level)) = <<>>
    /\ InterventionLocked

\* process_action has returned or raised: the lock is released, return True
InterventionEngineReturn ==
    /\ h_pc = "h_engine"
    /\ h_ret' = [op |-> "apply_intervention", value |-> TRUE]
    /\ h_pc' = "h_idle"
    /\ h_arg' = NoArg
    /\ UNCHANGED <<h_engine, h_active, h_severity, h_recovery_progress,
                   h_start_time, h_last_update_time, h_interventions,
                   h_last_actions, h_actions, h_update_ret, h_calls>>
    /\ UNCHANGED <<clockVars, notHangover>>

\* start_hangover_simulation and stop_simulation wait for the lock
StartHangoverSimulationLocked(severities) ==
    /\ ~hangover_lock_held
    /\ StartHangoverSimulation(severities)

StopHangoverSimulationLocked ==
    /\ ~hangover_lock_held
    /\ StopHangoverSimulation

ApplyIntervention(types, levels, maxCalls) ==
    \/ InterventionCheckActive(types, levels, maxCalls)
    \/ InterventionLocked

\* the clock of the hangover sessions
HangoverTick == clock < MaxHangoverTime /\ Tick

(***************************************************************************)
(* HangoverRecoveryController.update_recovery_progress and apply_to_engine. *)
(* recovery_progress is an exact fraction num/den in lowest terms.          *)
(***************************************************************************)
RECURSIVE GCD(_, _)
GCD(a, b) == IF b = 0 THEN a ELSE GCD(b, a % b)

\* a fraction with a positive denominator, in lowest terms
Reduce(f) ==
    LET g == GCD(IF f.num < 0 THEN -f.num ELSE f.num, f.den)
    IN  [num |-> f.num \div g, den |-> f.den \div g]

FracAdd(f, g) == Reduce([num |-> f.num * g.den + g.num * f.den, den |-> f.den * g.den])
FracLess(f, g) == f.num * g.den < g.num * f.den
One == [num |-> 1, den |-> 1]

\* self.recovery_multipliers, in tenths
recovery_multipliers ==
    [hydration |-> 5, electrolytes |-> 3, nutrients |-> 3, rest |-> 4,
     exercise |-> 2, medication |-> 3]

\* sum over the levers of level * multiplier, in thousandths
RECURSIVE weighted_levels(_, _)
weighted_levels(levels, keys) ==
    IF keys = {} THEN 0
    ELSE LET k == CHOOSE x \in keys : TRUE
         IN  levels[k] * recovery_multipliers[k] + weighted_levels(levels, keys \ {k})

\* base_rate = 1.0 / 86400.0: seconds of a full recovery without intervention
base_recovery_seconds == 86400

\* enhanced_rate / base_rate = 1 + 5 * recovery_rate, with
\* recovery_rate = (weighted levels / 1000) / (1 + severity / 100)
rate_factor_unscaled(levels, severity) ==
    Reduce([num |-> 200 + weighted_levels(levels, Levers), den |-> 200])

rate_factor(levels, severity) ==
    Reduce([num |-> 2 * (100 + severity) + weighted_levels(levels, Levers),
            den |-> 2 * (100 + severity)])

progress_delta_base_only(levels, severity, time_delta) ==
    Reduce([num |-> time_delta, den |-> base_recovery_seconds])

progress_delta_scaled_by_severity(levels, severity, time_delta) ==
    LET elapsed == Reduce([num |-> 100 * time_delta,
                           den |-> base_recovery_seconds * (100 + severity)])
        factor == Reduce([num |-> 2 * (100 + severity) + weighted_levels(levels, Levers),
                          den |-> 2 * (100 + severity)])
    IN  Reduce([num |-> elapsed.num * factor.num, den |-> elapsed.den * factor.den])

\* progress_delta = enhanced_rate * time_delta
progress_delta(levels, severity, time_delta) ==
    LET elapsed == Reduce([num |-> time_delta, den |-> base_recovery_seconds])
        factor == rate_factor(levels, severity)
    IN  Reduce([num |-> elapsed.num * factor.num, den |-> elapsed.den * factor.den])

\* min(1.0, self.recovery_progress + progress_delta)
advanced_progress(progress, delta) ==
    IF FracLess(One, FracAdd(progress, delta)) THEN One ELSE FracAdd(progress, delta)

\* "if self.recovery_progress >= 0.99"
fully_recovered_above_only(progress) == 100 * progress.num > 99 * progress.den

fully_recovered(progress) == 100 * progress.num >= 99 * progress.den

\* "self.active = False" when fully recovered
active_after_update_kept(progress) == h_active

active_after_update(progress) == h_active /\ ~fully_recovered(progress)

\* the body of update_recovery_progress under self.lock
update_locked ==
    LET progress == advanced_progress(h_recovery_progress,
                        progress_delta(h_interventions, h_severity,
                                       clock - h_last_update_time))
    IN  /\ h_last_update_time' = clock
        /\ h_recovery_progress' = IF fully_recovered(progress) THEN One ELSE progress
        /\ h_active' = active_after_update(progress)

\* update_recovery_progress: "if not self.active: return 0.0", before the lock
UpdateCheckActive ==
    /\ h_pc = "h_idle"
    /\ IF h_active
       THEN h_pc' = "h_ulock" /\ UNCHANGED <<h_ret, h_update_ret>>
       ELSE /\ h_ret' = [op |-> "update_recovery_progress", value |-> FALSE]
            /\ h_update_ret' = Zero
            /\ UNCHANGED h_pc
    /\ UNCHANGED <<h_engine, h_active, h_severity, h_recovery_progress,
                   h_start_time, h_last_update_time, h_interventions,
                   h_last_actions, h_arg, h_actions, h_calls>>
    /\ UNCHANGED <<clockVars, notHangover>>

\* update_recovery_progress: the body under self.lock; returns the progress
UpdateLocked ==
    /\ h_pc = "h_ulock"
    /\ update_locked
    /\ h_update_ret' = h_recovery_progress'
    /\ h_ret' = [op |-> "update_recovery_progress", value |-> TRUE]
    /\ h_pc' = "h_idle"
    /\ UNCHANGED <<h_engine, h_severity, h_start_time, h_interventions,
                   h_last_actions, h_arg, h_actions, h_calls>>
    /\ UNCHANGED <<clockVars, notHangover>>

UpdateRecoveryProgress ==
    \/ UpdateCheckActive
    \/ UpdateLocked

\* apply_to_engine: "if self.engine is None or not self.active: return False"
apply_refused_without_engine_only == h_engine = "none"

apply_refused == h_engine = "none" \/ ~h_active

HangoverApplyCheck ==
    /\ h_pc = "h_idle"
    /\ h_actions' = <<>>
    /\ IF apply_refused
       THEN h_ret' = [op |-> "apply_to_engine", value |-> FALSE] /\ UNCHANGED h_pc
       ELSE h_pc' = "h_apply" /\ UNCHANGED h_ret
    /\ UNCHANGED <<h_engine, h_active, h_severity, h_recovery_progress,
                   h_start_time, h_last_update_time, h_interventions,
                   h_last_actions, h_arg, h_update_ret, h_calls>>
    /\ UNCHANGED <<clockVars, notHangover>>

\* apply_to_engine: self.update_recovery_progress(), its test of self.active
HangoverApplyUpdateCheck ==
    /\ h_pc = "h_apply"
    /\ h_pc' = IF h_active THEN "h_apply_ulock" ELSE "h_apply_effects"
    /\ UNCHANGED <<h_engine, h_active, h_severity, h_recovery_progress,
                   h_start_time, h_last_update_time, h_interventions,
                   h_last_actions, h_arg, h_actions, h_ret, h_update_ret, h_calls>>
    /\ UNCHANGED <<clockVars, notHangover>>

\* apply_to_engine: self.update_recovery_progress(), its body under self.lock
HangoverApplyUpdateLocked ==
    /\ h_pc = "h_apply_ulock"
    /\ update_locked
    /\ h_pc' = "h_apply_effects"
    /\ UNCHANGED <<h_engine, h_severity, h_start_time, h_interventions,
                   h_last_actions, h_arg, h_actions, h_ret, h_update_ret, h_calls>>
    /\ UNCHANGED <<clockVars, notHangover>>

\* apply_to_engine: _apply_rest_effect and _apply_exercise_effect (both
\* "pass"), then return True
HangoverApplyEffects ==
    /\ h_pc = "h_apply_effects"
    /\ h_ret' = [op |-> "apply_to_engine", value |-> TRUE]
    /\ h_pc' = "h_idle"
    /\ UNCHANGED <<h_engine, h_active, h_severity, h_recovery_progress,
                   h_start_time, h_last_update_time, h_interventions,
                   h_last_actions, h_arg, h_actions, h_update_ret, h_calls>>
    /\ UNCHANGED <<clockVars, notHangover>>

HangoverApplyToEngine ==
    \/ HangoverApplyCheck
    \/ HangoverApplyUpdateCheck
    \/ HangoverApplyUpdateLocked
    \/ HangoverApplyEffects

\* half a day passes
HalfDaySeconds == 43200

HalfDay ==
    /\ clock < MaxRecoveryHalfDays * HalfDaySeconds
    /\ clock' = clock + HalfDaySeconds
    /\ UNCHANGED notClock

\* a third of a day, less 200 seconds, passes
RecoveryStepSeconds == 28600

RecoveryStep ==
    /\ clock < MaxRecoverySteps * RecoveryStepSeconds
    /\ clock' = clock + RecoveryStepSeconds
    /\ UNCHANGED notClock

(***************************************************************************)
(* WearableTwinSystem: the coordinator.  Its engine is its own PulseEngine; *)
(* its channel list holds NumChannels registered channels.                  *)
(***************************************************************************)
CoordThreads == 1..MaxCoordStarts

NoCoordRecord == [primary_state |-> "neutral",
                  state_description |-> "Twin is in a neutral state",
                  all_states |-> [k \in {} |-> FALSE],
                  physiological_values |-> [k \in {} |-> 0]]

InitSystem ==
    /\ sys_running = FALSE
    /\ sys_caller = "idle"
    /\ simulation_thread = 0
    /\ pulse_engine = [sample |-> 2, cleared |-> FALSE]
    /\ c_pc = [t \in CoordThreads |-> "c_none"]
    /\ c_ch = [t \in CoordThreads |-> 0]
    /\ c_record = [t \in CoordThreads |-> NoCoordRecord]
    /\ c_calls = [t \in CoordThreads |-> NoCalls]

coord_thread_alive(t) == c_pc[t] \notin {"c_none", "c_done"}

\* number of threads created so far
coord_threads_created == Cardinality({t \in CoordThreads : c_pc[t] # "c_none"})

\* start(): returns False when the flag is set, else sets it and starts a thread
StartSystem ==
    /\ sys_caller = "idle"
    /\ IF sys_running
       THEN UNCHANGED <<sys_running, simulation_thread, c_pc>>
       ELSE /\ coord_threads_created < MaxCoordStarts
            /\ sys_running' = TRUE
            /\ simulation_thread' = coord_threads_created + 1
            /\ c_pc' = [c_pc EXCEPT ![coord_threads_created + 1] = "c_loop"]
    /\ UNCHANGED <<sys_caller, pulse_engine, c_ch, c_record, c_calls>>
    /\ UNCHANGED notSystem

\* stop(): self.running = False, then join the thread for at most 3 seconds
StopSystem ==
    /\ sys_caller = "idle"
    /\ sys_running' = FALSE
    /\ sys_caller' = "joining"
    /\ UNCHANGED <<simulation_thread, pulse_engine, c_pc, c_ch, c_record, c_calls>>
    /\ UNCHANGED notSystem

\* whether stop() goes on to pulse_engine.clear() while the thread it joined
\* is still alive: join(timeout=3.0) returns after 3 seconds at the latest
join_returns_waiting(t_alive) == ~t_alive

join_returns(t_alive) == TRUE

\* the join is over (or was skipped: no thread, or not alive) and stop() calls
\* self.pulse_engine.clear()
StopSystemClear ==
    /\ sys_caller = "joining"
    /\ join_returns(simulation_thread # 0 /\ coord_thread_alive(simulation_thread))
    /\ pulse_engine' = [pulse_engine EXCEPT !.cleared = TRUE]
    /\ sys_caller' = "idle"
    /\ UNCHANGED <<sys_running, simulation_thread, c_pc, c_ch, c_record, c_calls>>
    /\ UNCHANGED notSystem

\* while self.running: ... self.pulse_engine.advance_time_s(time_step) begins
CoordLoopHead(t) ==
    /\ c_pc[t] = "c_loop"
    /\ IF loop_goes_on(sys_running)
       THEN /\ c_pc' = [c_pc EXCEPT ![t] = "c_advance"]
            /\ c_calls' = [c_calls EXCEPT ![t] = [advance |-> 1, sample |-> 0]]
       ELSE /\ c_pc' = [c_pc EXCEPT ![t] = "c_done"]
            /\ c_calls' = [c_calls EXCEPT ![t] = NoCalls]
    /\ UNCHANGED <<sys_running, sys_caller, simulation_thread, pulse_engine, c_ch,
                   c_record>>
    /\ UNCHANGED notSystem

\* advance_time_s returns and pull_data begins
CoordAdvanceReturn(t, samples) ==
    /\ c_pc[t] = "c_advance"
    /\ \E e \in samples : pulse_engine' = [pulse_engine EXCEPT !.sample = e]
    /\ c_pc' = [c_pc EXCEPT ![t] = "c_pull"]
    /\ c_calls' = [c_calls EXCEPT ![t].sample = @ + 1]
    /\ UNCHANGED <<sys_running, sys_caller, simulation_thread, c_ch, c_record>>
    /\ UNCHANGED notSystem

\* where a simulation thread continues when an engine call has raised
after_engine_raise_exit == "c_done"

after_engine_raise == "c_errsleep"

\* advance_time_s or pull_data raises: the except of the loop body logs and sleeps
CoordEngineRaise(t) ==
    /\ c_pc[t] \in {"c_advance", "c_pull"}
    /\ c_pc' = [c_pc EXCEPT ![t] = after_engine_raise]
    /\ UNCHANGED <<sys_running, sys_caller, simulation_thread, pulse_engine, c_ch,
                   c_record, c_calls>>
    /\ UNCHANGED notSystem

\* the flags of the coordinator's record: is_dizzy is the constant False, the
\* other two compare the heart rate
coord_all_states(results) ==
    [is_dizzy |-> FALSE,
     is_chill |-> results.heart_rate < 80,
     is_beast_mode |-> results.heart_rate > 90]

\* the primary state of the coordinator's record: the if/elif chain
coord_primary_state(all_states) ==
    IF all_states.is_dizzy THEN "is_dizzy"
    ELSE IF all_states.is_beast_mode THEN "is_beast_mode"
    ELSE IF all_states.is_chill THEN "is_chill"
    ELSE "neutral"

coord_description(primary) ==
    CASE primary = "is_dizzy" -> "Twin is dizzy"
      [] primary = "is_beast_mode" -> "Twin is in beast mode"
      [] primary = "is_chill" -> "Twin is chill"
      [] OTHER -> "Twin is in a neutral state"

coord_record(results) ==
    [primary_state |-> coord_primary_state(coord_all_states(results)),
     state_description |-> coord_description(coord_primary_state(coord_all_states(results))),
     all_states |-> coord_all_states(results),
     physiological_values |-> results]

\* pull_data returns: the record is built and the update loop begins
CoordPullReturn(t) ==
    /\ c_pc[t] = "c_pull"
    /\ c_record' = [c_record EXCEPT ![t] = coord_record(EngineSamples[pulse_engine.sample])]
    /\ c_ch' = [c_ch EXCEPT ![t] = 1]
    /\ c_pc' = [c_pc EXCEPT ![t] = "c_notify"]
    /\ UNCHANGED <<sys_running, sys_caller, simulation_thread, pulse_engine, c_calls>>
    /\ UNCHANGED notSystem

\* channel.update_avatar_state(state_record) begins
CoordChannelCall(t) ==
    /\ c_pc[t] = "c_notify"
    /\ c_pc' = [c_pc EXCEPT ![t] = "c_incall"]
    /\ UNCHANGED <<sys_running, sys_caller, simulation_thread, pulse_engine, c_ch,
                   c_record, c_calls>>
    /\ UNCHANGED notSystem

\* the call returns, or raises into the except inside the loop: next channel,
\* or time.sleep(update_interval) after the last one
CoordChannelDone(t) ==
    /\ c_pc[t] = "c_incall"
    /\ IF c_ch[t] < NumChannels
       THEN /\ c_ch' = [c_ch EXCEPT ![t] = @ + 1]
            /\ c_pc' = [c_pc EXCEPT ![t] = "c_notify"]
       ELSE /\ c_pc' = [c_pc EXCEPT ![t] = "c_sleep"]
            /\ UNCHANGED c_ch
    /\ UNCHANGED <<sys_running, sys_caller, simulation_thread, pulse_engine,
                   c_record, c_calls>>
    /\ UNCHANGED notSystem

\* time.sleep(update_interval), or time.sleep(0.1) in the except
CoordSleep(t) ==
    /\ c_pc[t] \in {"c_sleep", "c_errsleep"}
    /\ c_pc' = [c_pc EXCEPT ![t] = "c_loop"]
    /\ UNCHANGED <<sys_running, sys_caller, simulation_thread, pulse_engine, c_ch,
                   c_record, c_calls>>
    /\ UNCHANGED notSystem

\* the steps of a simulation thread other than the end of a channel call
CoordOwnStep(t, samples) ==
    \/ CoordLoopHead(t)
    \/ CoordAdvanceReturn(t, samples)
    \/ CoordEngineRaise(t)
    \/ CoordPullReturn(t)
    \/ CoordChannelCall(t)
    \/ CoordSleep(t)

CoordStep(t, samples) ==
    \/ CoordOwnStep(t, samples)
    \/ CoordChannelDone(t)

SystemLifecycle ==
    \/ StartSystem
    \/ StopSystem
    \/ StopSystemClear

CoordSamples == {1, 2, 5}

(***************************************************************************)
(* AvatarStateManager.get_state_trend as a function call on a history.     *)
(* A record of the history carries its timestamp: "valid", "invalid" when  *)
(* fromisoformat raises ValueError, or "missing" when the record has none  *)
(* (KeyError); the age of a valid timestamp at the call (now - timestamp,  *)
(* in seconds); and its all_states dictionary.                             *)
(***************************************************************************)
NoTrend == [trend |-> "none", occurrences |-> 0, total_records |-> 0]

InitTrend ==
    /\ trend_history = <<>>
    /\ trend_args = [state_key |-> "none", duration_seconds |-> 0]
    /\ trend_ret = NoTrend

\* "time_diff <= duration_seconds" inside the try; ValueError and KeyError skip
\* the record
in_window(record, duration_seconds) ==
    /\ record.timestamp = "valid"
    /\ record.age <= duration_seconds

\* record.get('all_states', {}).get(state_key, False)
has_state(record, state_key) ==
    /\ state_key \in DOMAIN record.all_states
    /\ record.all_states[state_key]

\* sum(1 for record in filtered_history if <record has the state>), from the
\* i-th record on
RECURSIVE count_state(_, _, _)
count_state(history, state_key, i) ==
    IF i > Len(history) THEN 0
    ELSE (IF has_state(history[i], state_key) THEN 1 ELSE 0)
         + count_state(history, state_key, i + 1)

\* the chain of comparisons of frequency = occurrences / total_records with
\* 0.1, 0.3 and 0.7
trend_of_inclusive(occurrences, total_records) ==
    IF 10 * occurrences <= total_records THEN "rare"
    ELSE IF 10 * occurrences <= 3 * total_records THEN "occasional"
    ELSE IF 10 * occurrences <= 7 * total_records THEN "frequent"
    ELSE "dominant"

trend_of(occurrences, total_records) ==
    IF 10 * occurrences < total_records THEN "rare"
    ELSE IF 10 * occurrences < 3 * total_records THEN "occasional"
    ELSE IF 10 * occurrences < 7 * total_records THEN "frequent"
    ELSE "dominant"

get_state_trend(history, state_key, duration_seconds) ==
    IF history = <<>>
    THEN [trend |-> "neutral", occurrences |-> 0, total_records |-> 0]
    ELSE LET InWindow(record) == in_window(record, duration_seconds)
             filtered_history == SelectSeq(history, InWindow)
             occurrences == count_state(filtered_history, state_key, 1)
             total_records == Len(filtered_history)
         IN  IF total_records = 0
             THEN [trend |-> "neutral", occurrences |-> 0, total_records |-> 0]
             ELSE [trend |-> trend_of(occurrences, total_records),
                   occurrences |-> occurrences,
                   total_records |-> total_records]

\* a list of n copies of a record
Copies(n, record) == [i \in 1..n |-> record]

\* a history, oldest record first: records older than the window, records
\* whose timestamp cannot be read, then records of the window without and
\* with the flag (the oldest of them exactly duration_seconds old)
TrendHistory(nOld, nBad, nFalse, nTrue, duration_seconds) ==
    Copies(nOld, [timestamp |-> "valid", age |-> duration_seconds + 1,
                  all_states |-> [is_dizzy |-> TRUE]])
    \o Copies(nBad, [timestamp |-> "invalid", age |-> 0,
                     all_states |-> [is_dizzy |-> TRUE]])
    \o Copies(nFalse, [timestamp |-> "valid", age |-> duration_seconds,
                       all_states |-> [is_dizzy |-> FALSE]])
    \o Copies(nTrue, [timestamp |-> "valid", age |-> 0,
                      all_states |-> [is_dizzy |-> TRUE]])

TrendKeys == {"is_dizzy", "is_chill"}

default_duration_seconds == 60

\* one call in a behaviour: get_state_trend keeps nothing between calls
CallGetStateTrend ==
    /\ trend_ret = NoTrend
    /\ \E nOld \in 0..MaxTrendOld, nBad \in 0..1, nFalse \in 0..MaxTrendFalse,
          nTrue \in 0..MaxTrendTrue, key \in TrendKeys :
         /\ trend_history' = TrendHistory(nOld, nBad, nFalse, nTrue,
                                          default_duration_seconds)
         /\ trend_args' = [state_key |-> key,
                           duration_seconds |-> default_duration_seconds]
         /\ trend_ret' = get_state_trend(trend_history', key,
                                         default_duration_seconds)
    /\ UNCHANGED notTrend

(***************************************************************************)
(* PulseSimulationController.set_thresholds, called from another thread    *)
(* than the simulation thread: a loop over the items of the argument with  *)
(* one assignment per item and no lock.                                    *)
(***************************************************************************)
InitThresholds ==
    /\ th_pending = <<>>
    /\ th_requested = [low_oxygen_threshold |-> 90,
                       high_hrv_threshold |-> 70 * HrvUnit,
                       elevated_cardiac_output |-> 6]

\* "if key in self.thresholds"
known_key_any(key, th) == TRUE

known_key(key, th) == key \in DOMAIN th

\* "self.thresholds[key] = value" on a dictionary
dict_set(d, key, value) ==
    [k \in DOMAIN d \cup {key} |-> IF k = key THEN value ELSE d[k]]

\* the threshold set a caller has asked for once every item is processed
RECURSIVE thresholds_after(_, _)
thresholds_after(th, items) ==
    IF items = <<>> THEN th
    ELSE thresholds_after(IF Head(items).key \in DOMAIN th
                          THEN [th EXCEPT ![Head(items).key] = Head(items).value]
                          ELSE th,
                          Tail(items))

\* set_thresholds(threshold_dict) is entered
SetThresholdsCall(updates) ==
    /\ th_pending = <<>>
    /\ \E items \in updates :
         /\ th_pending' = items
         /\ th_requested' = thresholds_after(th_requested, items)
    /\ UNCHANGED <<simVars, engVars, notStepperAux>>

\* one iteration of "for key, value in threshold_dict.items()"; the call
\* returns after the last one
SetThresholdsItem ==
    /\ th_pending # <<>>
    /\ thresholds' = IF known_key(Head(th_pending).key, thresholds)
                     THEN dict_set(thresholds, Head(th_pending).key,
                                   Head(th_pending).value)
                     ELSE thresholds
    /\ th_pending' = Tail(th_pending)
    /\ UNCHANGED <<latest_values, current_states, simCtlVars, th_requested>>
    /\ UNCHANGED <<engVars, notStepperAux>>

SetThresholds(updates) ==
    \/ SetThresholdsCall(updates)
    \/ SetThresholdsItem

(***************************************************************************)
(* Registration of output channels, as calls of their own: the list of the *)
(* resolver (AvatarStateManager.register_output_channel) and the list of   *)
(* the coordinator (WearableTwinSystem.__init__, _register_output_channel).*)
(* A channel is one of: an instance of a subclass of OutputChannel, an     *)
(* instance of OutputChannel itself, an object of another class with a     *)
(* method update_avatar_state ("duck"), an object whose update_avatar_state*)
(* is not callable ("attribute"), an object without it ("object").         *)
(***************************************************************************)
ChannelKinds == {"ConsoleOutputChannel", "OutputChannel", "duck", "attribute", "object"}

NoRegistration == [op |-> "none", channel |-> "none", value |-> FALSE]

InitRegistration ==
    /\ asm_output_channels = <<>>
    /\ sys_output_channels = <<"ConsoleOutputChannel">>
    /\ reg_ret = NoRegistration

\* hasattr(channel, 'update_avatar_state') and callable(channel.update_avatar_state)
has_update_avatar_state(channel) == channel \notin {"attribute", "object"}

\* isinstance(channel, OutputChannel)
is_output_channel(channel) == channel \in {"ConsoleOutputChannel", "OutputChannel"}

\* AvatarStateManager.register_output_channel
RegisterOutputChannel ==
    /\ Len(asm_output_channels) < MaxRegistered
    /\ \E channel \in ChannelKinds :
         /\ asm_output_channels' = IF has_update_avatar_state(channel)
                                   THEN Append(asm_output_channels, channel)
                                   ELSE asm_output_channels
         /\ reg_ret' = [op |-> "register_output_channel", channel |-> channel,
                        value |-> has_update_avatar_state(channel)]
    /\ UNCHANGED <<sys_output_channels, notRegistration>>

\* WearableTwinSystem._register_output_channel on a list
register(channels, channel) ==
    IF is_output_channel(channel) THEN Append(channels, channel) ELSE channels

\* "for channel in output_channels: self._register_output_channel(channel)"
RECURSIVE register_all(_, _)
register_all(channels, given) ==
    IF given = <<>> THEN channels
    ELSE register_all(register(channels, Head(given)), Tail(given))

\* "if not self.output_channels": the console channel is registered
default_needed_by_argument(given, channels) == given = <<>>

default_needed(given, channels) == channels = <<>>

\* the lists of at most two channels a caller passes to the constructor
\* (None and [] are the empty list: "if output_channels:" skips both)
GivenChannels ==
    {<<>>} \cup {<<c>> : c \in ChannelKinds}
           \cup {<<c, d>> : c \in {"OutputChannel", "duck"}, d \in ChannelKinds}

\* WearableTwinSystem.__init__(output_channels)
NewWearableTwinSystem ==
    /\ \E given \in GivenChannels :
         LET channels == register_all(<<>>, given)
         IN  /\ sys_output_channels' =
                   IF default_needed(given, channels)
                   THEN register(channels, "ConsoleOutputChannel")
                   ELSE channels
             /\ reg_ret' = [op |-> "__init__", channel |-> "none", value |-> TRUE]
    /\ UNCHANGED <<asm_output_channels, notRegistration>>

\* WearableTwinSystem._register_output_channel after construction
SysRegisterOutputChannel ==
    /\ Len(sys_output_channels) < MaxRegistered
    /\ \E channel \in ChannelKinds :
         /\ sys_output_channels' = register(sys_output_channels, channel)
         /\ reg_ret' = [op |-> "_register_output_channel", channel |-> channel,
                        value |-> is_output_channel(channel)]
    /\ UNCHANGED <<asm_output_channels, notRegistration>>

(***************************************************************************)
(* WebVisualizationOutputChannel.update_avatar_state.  A point of a series *)
(* is identified by the number of the update that delivered it (its x is   *)
(* the time of arrival).  A state record is one of:                        *)
(*   full         the six metrics of the feed, as numbers                  *)
(*   partial      no heart_rate, the other five as numbers                 *)
(*   text         heart_rate is not convertible by float(), the other five *)
(*                are numbers                                              *)
(*   values_none  physiological_values is None: "'heart_rate' in values"   *)
(*                raises TypeError                                         *)
(*   write_fails  a full record, and writing data.json raises OSError      *)
(***************************************************************************)
WebMetrics == {"heart_rate", "systolic_pressure", "diastolic_pressure",
               "mean_pressure", "oxygen_saturation", "respiratory_rate"}

RecordShapes == {"full", "partial", "text", "values_none", "write_fails"}

InitWeb ==
    /\ web_values = [m \in WebMetrics |-> <<>>]
    /\ web_states = <<>>
    /\ web_delivered = [m \in WebMetrics \cup {"states"} |-> <<>>]
    /\ web_updates = 0
    /\ web_outcome = "none"

max_points == 100

\* "if len(series) > 100: series = series[-100:]"
keep_last_at_or_above(series) ==
    IF Len(series) >= max_points
    THEN SubSeq(series, Len(series) - max_points + 2, Len(series))
    ELSE series

keep_last(series) ==
    IF Len(series) > max_points
    THEN SubSeq(series, Len(series) - max_points + 1, Len(series))
    ELSE series

\* what values[metric] is in a record of a shape
metric_value(shape, metric) ==
    IF metric = "heart_rate" /\ shape = "partial" THEN "absent"
    ELSE IF metric = "heart_rate" /\ shape = "text" THEN "text"
    ELSE "number"

\* the exception raised while a record of a shape is handled, and whether
\* it is raised inside one of the inner try blocks
exception_of(shape) ==
    CASE shape = "text" -> [type |-> "ValueError", inner |-> TRUE]
      [] shape = "values_none" -> [type |-> "TypeError", inner |-> FALSE]
      [] shape = "write_fails" -> [type |-> "OSError", inner |-> FALSE]
      [] OTHER -> [type |-> "none", inner |-> FALSE]

\* "except (ValueError, TypeError)" of the inner blocks, "except Exception"
\* of the outer one
caught_inside(exc) == exc.inner /\ exc.type \in {"ValueError", "TypeError"}

caught_outside(exc) == exc.type \in {"ValueError", "TypeError", "OSError"}

outcome_of(exc) ==
    IF exc.type = "none" \/ caught_inside(exc) \/ caught_outside(exc)
    THEN "returned"
    ELSE "raised"

\* the free choice of the record's shape is kept to the first updates and to
\* the updates after the series are full; in between the records are full
shapes_at(n) == IF n < FreeWebUpdates \/ n >= max_points THEN RecordShapes ELSE {"full"}

UpdateWebAvatarState ==
    /\ web_updates < MaxWebUpdates
    /\ \E shape \in shapes_at(web_updates) :
         LET point == web_updates + 1
             aborted == shape = "values_none"
             valid(m) == ~aborted /\ metric_value(shape, m) = "number"
         IN  /\ web_values' = [m \in WebMetrics |->
                                 IF valid(m)
                                 THEN keep_last(Append(web_values[m], point))
                                 ELSE web_values[m]]
             /\ web_states' = IF aborted THEN web_states
                              ELSE keep_last(Append(web_states, point))
             /\ web_delivered' = [m \in WebMetrics \cup {"states"} |->
                                    IF (m = "states" /\ ~aborted)
                                       \/ (m \in WebMetrics /\ valid(m))
                                    THEN Append(web_delivered[m], point)
                                    ELSE web_delivered[m]]
             /\ web_outcome' = outcome_of(exception_of(shape))
    /\ web_updates' = web_updates + 1
    /\ UNCHANGED notWeb

(***************************************************************************)
(* A caller of get_state_history on another thread than the display loop.  *)
(* The method takes no lock: it copies the list as it is at that moment.   *)
(***************************************************************************)
NoHistory == 0 - 1

InitRead == hist_seen = NoHistory

\* return self.state_history.copy()
GetStateHistory ==
    /\ hist_seen' = Len(state_history)
    /\ UNCHANGED notRead

(***************************************************************************)
(* Specifications                                                          *)
(***************************************************************************)
Init ==
    /\ InitResolveVars
    /\ InitSimData /\ InitStepper /\ InitEngine
    /\ InitDisplay
    /\ InitProcessor
    /\ InitSystem
    /\ InitSmooth
    /\ InitClock
    /\ InitWorkout
    /\ InitHangover
    /\ InitTrend
    /\ InitThresholds
    /\ InitRegistration
    /\ InitWeb
    /\ InitRead

\* calls of _determine_primary_state with every dictionary of flags
NextResolve == CallDeterminePrimaryState

SpecResolve == Init /\ [][NextResolve]_vars

\* the display loop over a stepper that has been constructed but not started
NextDisplay ==
    \/ DisplayStep(MaxHistUpdates)
    \/ DisplayLifecycle

SpecDisplay == Init /\ [][NextDisplay]_vars

\* the display loop with a concurrent caller of get_state_history; no channel
\* raises and the display is not stopped
NextHistory ==
    \/ StartDisplay
    \/ DisplayLoopHead(MaxHistUpdates)
    \/ DisplayGetValues
    \/ DisplayGetStates
    \/ DisplayAppend
    \/ DisplayEvict
    \/ DisplayChannelCall
    \/ DisplayChannelReturn
    \/ DisplaySleep
    \/ GetStateHistory

SpecHistory == Init /\ [][NextHistory]_vars

\* the stepper and the display loop side by side: the display is started once
\* the stepper has sampled, and makes MaxSamplingUpdates updates
SamplingStartDisplay == last_update_set /\ StartDisplay

NextSampling ==
    \/ StartSimulation
    \/ StepperStep(SamplingSamples)
    \/ SamplingStartDisplay
    \/ DisplayLoopHead(MaxSamplingUpdates)
    \/ DisplayGetValues
    \/ DisplayGetStates
    \/ DisplayAppend

SpecSampling == Init /\ [][NextSampling]_vars

\* the stepper alone
NextStepper ==
    \/ StepperStep(StepperSamples)
    \/ StepperLifecycle

SpecStepper == Init /\ [][NextStepper]_vars

\* the ingestion stage alone
NextProcessor ==
    \/ ProcStep(MockData)
    \/ ProcLifecycle

SpecProcessor == Init /\ [][NextProcessor]_vars

\* calls of _smooth_data on one buffer with every sequence of inputs
NextSmooth == CallSmoothData

SpecSmooth == Init /\ [][NextSmooth]_vars

\* the workout controller, the callers of start_workout, stop_workout and
\* get_current_intensity, and the clock
NextWorkout ==
    \/ NewWorkoutController
    \/ Tick
    \/ StartWorkout(WorkoutTypes, IntensityInputs, DurationInputs)
    \/ StopWorkout
    \/ GetCurrentIntensity

SpecWorkout == Init /\ [][NextWorkout]_vars

\* the workout controller with a caller of apply_to_engine next to the
\* callers of start_workout and stop_workout
ApplyTypes == {"constant", "ramp_up"}
ApplyIntensities == {1, 5, 500}
ApplyDurations == {40}

NextWorkoutApply ==
    \/ NewWorkoutController
    \/ Tick
    \/ StartWorkout(ApplyTypes, ApplyIntensities, ApplyDurations)
    \/ StopWorkout
    \/ ApplyToEngine

SpecWorkoutApply == Init /\ [][NextWorkoutApply]_vars

\* the hangover controller with one caller of apply_intervention next to the
\* callers of start_hangover_simulation and stop_simulation
NextHangover ==
    \/ NewHangoverController
    \/ HangoverTick
    \/ StartHangoverSimulation(SeverityInputs)
    \/ StopHangoverSimulation
    \/ ApplyIntervention(InterventionTypes, LevelInputs, MaxInterventionCalls)

SpecHangover == Init /\ [][NextHangover]_vars

\* the recovery of a hangover over two days: the callers of
\* start_hangover_simulation and, one call at a time, of apply_intervention,
\* update_recovery_progress and apply_to_engine
RecoverySeverities == {0, 70, 150}
RecoveryTypes == {"hydration", "electrolytes", "rest"}
RecoveryLevels == {50, 100}

NextRecovery ==
    \/ NewHangoverController
    \/ HalfDay
    \/ StartHangoverSimulation(RecoverySeverities)
    \/ ApplyIntervention(RecoveryTypes, RecoveryLevels, MaxRecoveryCalls)
    \/ UpdateRecoveryProgress
    \/ HangoverApplyToEngine

SpecRecovery == Init /\ [][NextRecovery]_vars

\* the same controller with updates at shorter distances, so that a session
\* is seen at a third, at two thirds and at just under a full day
SplitSeverities == {0, 70}
SplitTypes == {"hydration", "exercise"}
SplitLevels == {50}

NextRecoverySplit ==
    \/ NewHangoverController
    \/ RecoveryStep
    \/ StartHangoverSimulation(SplitSeverities)
    \/ ApplyIntervention(SplitTypes, SplitLevels, MaxSplitCalls)
    \/ UpdateRecoveryProgress

SpecRecoverySplit == Init /\ [][NextRecoverySplit]_vars

\* the hangover controller with the engine call of apply_intervention as a
\* step of its own
NextHangoverEngine ==
    \/ NewHangoverController
    \/ HangoverTick
    \/ StartHangoverSimulationLocked(SeverityInputs)
    \/ StopHangoverSimulationLocked
    \/ InterventionCheckActive(InterventionTypes, LevelInputs, MaxInterventionCalls)
    \/ InterventionEngineCall
    \/ InterventionNoEngineCall
    \/ InterventionEngineReturn

SpecHangoverEngine == Init /\ [][NextHangoverEngine]_vars

\* calls of get_state_trend on histories of every composition
NextTrend == CallGetStateTrend

SpecTrend == Init /\ [][NextTrend]_vars

\* the stepper with a caller of set_thresholds; the engine answers with two
\* of its states
ThresholdSamples == {2, 3}

ThresholdUpdates ==
    { << [key |-> "low_oxygen_threshold", value |-> 96] >>,
      << [key |-> "elevated_cardiac_output", value |-> 3],
         [key |-> "low_oxygen_threshold", value |-> 90] >>,
      << [key |-> "oxygen_threshold", value |-> 99],
         [key |-> "elevated_cardiac_output", value |-> 6] >> }

NextThresholds ==
    \/ StepperStep(ThresholdSamples)
    \/ StepperLifecycle
    \/ SetThresholds(ThresholdUpdates)

SpecThresholds == Init /\ [][NextThresholds]_vars

\* constructions of the coordinator and registrations on both lists
NextRegistration ==
    \/ RegisterOutputChannel
    \/ NewWearableTwinSystem
    \/ SysRegisterOutputChannel

SpecRegistration == Init /\ [][NextRegistration]_vars

\* deliveries of state records to the web channel
NextWeb == UpdateWebAvatarState

SpecWeb == Init /\ [][NextWeb]_vars

\* stepper and ingestion stage on one engine, both started and left running;
\* the engine answers with two of its states, the mock source with one sample
IngestSamples == {1, 2}

IngestData == {[heart_rate |-> 72, respiratory_rate |-> 15, activity_level |-> 12]}

NextIngest ==
    \/ StartSimulation
    \/ StartProcessing
    \/ StepperStep(IngestSamples)
    \/ ProcStep(IngestData)

SpecIngest == Init /\ [][NextIngest]_vars

\* the coordinator with its simulation threads
NextSystem ==
    \/ \E t \in CoordThreads : CoordStep(t, CoordSamples)
    \/ SystemLifecycle

SpecSystem == Init /\ [][NextSystem]_vars

\* one stage at a time: the first start decides which of the four stages runs,
\* the others stay as constructed.  Every step of the running stage's thread
\* is taken eventually: each engine call, channel update and sleep returns.
SystemAlone ==
    /\ sim_pc = "s_none" /\ sim_caller = "idle"
    /\ disp_pc = "d_none" /\ disp_caller = "idle"
    /\ proc_pc = "p_none" /\ proc_caller = "idle"

StepperAlone ==
    /\ \A t \in CoordThreads : c_pc[t] = "c_none"
    /\ sys_caller = "idle" /\ ~pulse_engine.cleared
    /\ disp_pc = "d_none" /\ disp_caller = "idle"
    /\ proc_pc = "p_none" /\ proc_caller = "idle"

DisplayAlone ==
    /\ \A t \in CoordThreads : c_pc[t] = "c_none"
    /\ sys_caller = "idle" /\ ~pulse_engine.cleared
    /\ sim_pc = "s_none" /\ sim_caller = "idle"
    /\ proc_pc = "p_none" /\ proc_caller = "idle"

ProcessorAlone ==
    /\ \A t \in CoordThreads : c_pc[t] = "c_none"
    /\ sys_caller = "idle" /\ ~pulse_engine.cleared
    /\ sim_pc = "s_none" /\ sim_caller = "idle"
    /\ disp_pc = "d_none" /\ disp_caller = "idle"

NextStages ==
    \/ SystemAlone /\ (\E t \in CoordThreads : CoordStep(t, CoordSamples))
    \/ SystemAlone /\ SystemLifecycle
    \/ StepperAlone /\ StepperStep(StepperSamples)
    \/ StepperAlone /\ StepperLifecycle
    \/ DisplayAlone /\ DisplayStep(MaxStageUpdates)
    \/ DisplayAlone /\ DisplayLifecycle
    \/ ProcessorAlone /\ ProcStep(MockData)
    \/ ProcessorAlone /\ ProcLifecycle

FairSpecStages ==
    /\ Init /\ [][NextStages]_vars
    /\ \A t \in CoordThreads : WF_vars(CoordStep(t, CoordSamples))
    /\ WF_vars(StepperStep(StepperSamples))
    /\ WF_vars(DisplayStep(MaxStageUpdates))
    /\ WF_vars(ProcStep(MockData))

\* the coordinator when a channel may block for ever: every step of a
\* simulation thread is taken eventually, except the end of a channel call
FairSpecSystemBlocking ==
    /\ SpecSystem
    /\ \A t \in CoordThreads : WF_vars(CoordOwnStep(t, CoordSamples))

\* C1: the primary state follows the priority dizzy > beast_mode > chill >
\* neutral for every combination of flags, a missing flag counting as false.
C1_Priority ==
    nCalls > 0 =>
        LET d == "is_dizzy" \in DOMAIN arg_states /\ arg_states["is_dizzy"]
            b == "is_beast_mode" \in DOMAIN arg_states /\ arg_states["is_beast_mode"]
            c == "is_chill" \in DOMAIN arg_states /\ arg_states["is_chill"]
        IN  /\ d => ret_state = "is_dizzy"
            /\ (b /\ ~d) => ret_state = "is_beast_mode"
            /\ (c /\ ~d /\ ~b) => ret_state = "is_chill"
            /\ (~d /\ ~b /\ ~c) => ret_state = "neutral"

\* a call with dizzy and beast_mode both set and chill missing has returned
C1_Witness ==
    /\ nCalls > 0
    /\ DOMAIN arg_states = {"is_dizzy", "is_beast_mode"}
    /\ arg_states["is_dizzy"] /\ arg_states["is_beast_mode"]
    /\ ret_state = "is_dizzy"


\* C2: in every broadcast update_avatar_state is invoked exactly once on every
\* registered channel, in registration order, whichever channels raise; the
\* channels invoked so far are always a prefix of the registered ones, and the
\* broadcast only ends when all of them have been invoked.
C2_Broadcast ==
    /\ Len(delivered) <= NumChannels
    /\ \A i \in 1..Len(delivered) : delivered[i] = output_channels[i]
    /\ disp_pc = "d_notify" => Len(delivered) = disp_ch - 1
    /\ disp_pc = "d_incall" => Len(delivered) = disp_ch
    /\ (nUpdates > 0 /\ disp_pc \in {"d_sleep", "d_loop", "d_getvals",
                                     "d_getstates", "d_update", "d_done"})
          => delivered = output_channels

\* a broadcast in which every channel raised has ended, after a broadcast in
\* which some channel raised as well
C2_Witness ==
    /\ disp_pc = "d_sleep"
    /\ raisedPrev # {}
    /\ raised = {output_channels[i] : i \in 1..NumChannels}
    /\ delivered = output_channels

\* C3: between two updates the history holds min(n, 100) records after n
\* updates, namely the last ones in insertion order (record i of the history
\* is the (n - length + i)-th record created); it never exceeds the capacity.
C3_History ==
    disp_pc # "d_evict" =>
        /\ Len(state_history) = Min(nUpdates, max_history_length)
        /\ Len(state_history) <= max_history_length
        /\ \A i \in 1..Len(state_history) :
              state_history[i].timestamp = nUpdates - Len(state_history) + i

\* capacity + 3 updates have been made and the first three records are gone
C3_Witness ==
    /\ disp_pc # "d_evict"
    /\ nUpdates = max_history_length + 3
    /\ Len(state_history) = max_history_length
    /\ state_history[1].timestamp = 4
    /\ state_history[max_history_length].timestamp = max_history_length + 3

\* C8: when a sampling tick has ended, each flag is the strict threshold
\* comparison on the latest values: is_dizzy iff oxygen_saturation is below
\* low_oxygen_threshold, is_chill iff hrv is above high_hrv_threshold,
\* is_beast_mode iff cardiac_output is above elevated_cardiac_output; a value
\* equal to its threshold gives false.
C8_Flags ==
    (last_update_set /\ sim_pc \notin {"s_systems", "s_read", "s_hrv", "s_flags"}) =>
        /\ current_states.is_dizzy
              <=> (latest_values.oxygen_saturation < thresholds.low_oxygen_threshold)
        /\ current_states.is_chill
              <=> (latest_values.hrv > thresholds.high_hrv_threshold)
        /\ current_states.is_beast_mode
              <=> (latest_values.cardiac_output > thresholds.elevated_cardiac_output)

\* a sampling tick has ended on values that all equal the default thresholds
C8_Witness ==
    /\ sim_pc = "s_sleep"
    /\ last_update_set
    /\ thresholds.low_oxygen_threshold = 90
    /\ latest_values.oxygen_saturation = 90
    /\ thresholds.high_hrv_threshold = 70 * 7200
    /\ latest_values.hrv = 70 * 7200
    /\ thresholds.elevated_cardiac_output = 6
    /\ latest_values.cardiac_output = 6
    /\ current_states = [is_dizzy |-> FALSE, is_chill |-> FALSE,
                         is_beast_mode |-> FALSE]

(***************************************************************************)
(* Engine accesses in progress                                             *)
(***************************************************************************)
\* the threads that are inside a call of the shared engine
StepperInEngine == sim_pc \in {"s_advance", "s_systems", "s_read"}
ProcessorInEngine == proc_pc \in {"p_hr", "p_rr", "p_ex"}
CoordInEngine(t) == c_pc[t] \in {"c_advance", "c_pull"}

\* C4: no two engine accesses are in progress at the same time, and every
\* engine access is made by a thread that holds the engine lock.
C4_EngineLocked ==
    /\ ~(StepperInEngine /\ ProcessorInEngine)
    /\ StepperInEngine => simulation_lock = "stepper"
    /\ ProcessorInEngine => simulation_lock = "processor"

\* C5: while a channel's update_avatar_state has not returned and the system
\* is running, the engine is advanced again (the advance does not wait for
\* the channel).
C5_NoStall ==
    \A t \in CoordThreads :
        (c_pc[t] = "c_incall" /\ sys_running)
            ~> (c_pc[t] # "c_incall" \/ ~sys_running
                \/ \E u \in CoordThreads : c_pc[u] = "c_advance")

\* C7: stop() releases the engine only when the simulation threads have
\* stopped: at the step in which stop() clears the engine no thread is alive,
\* so no engine call is in progress and none can follow.
C7_ReleasedAfterThreads ==
    [][(sys_caller = "joining" /\ sys_caller' = "idle")
          => \A t \in CoordThreads : ~coord_thread_alive(t) /\ ~CoordInEngine(t)]_vars

\* C9: every record handed to the output channels whose oxygen_saturation is
\* below the low-oxygen threshold (90) has the primary state dizzy.
C9_LowOxygenIsDizzy ==
    \A t \in CoordThreads :
        (c_pc[t] \in {"c_notify", "c_incall"}
         /\ c_record[t].physiological_values.oxygen_saturation < 90)
            => c_record[t].primary_state = "is_dizzy"

C10_LoopSurvives ==
    /\ [][/\ (sim_pc' = "s_done" /\ sim_pc # "s_done")
                => (sim_pc = "s_loop" /\ ~sim_running)
          /\ (disp_pc' = "d_done" /\ disp_pc # "d_done")
                => (disp_pc = "d_loop" /\ ~asm_running)
          /\ \A t \in CoordThreads :
                (c_pc'[t] = "c_done" /\ c_pc[t] # "c_done")
                    => (c_pc[t] = "c_loop" /\ ~sys_running)]_vars
    /\ [](/\ sim_calls.advance <= 1 /\ sim_calls.sample <= 1
          /\ \A t \in CoordThreads : c_calls[t].advance <= 1 /\ c_calls[t].sample <= 1)
    /\ (sim_pc = "s_errsleep") ~> (sim_pc = "s_loop")
    /\ \A t \in CoordThreads : (c_pc[t] = "c_errsleep") ~> (c_pc[t] = "c_loop")

\* advance_time_s has raised and the stepper thread is in the except branch's
\* sleep with the flag still set
C10_Witness ==
    sim_pc = "s_errsleep" /\ sim_running /\ sim_calls.advance = 1

\* C11: at the end of every tick of an ingestion stage that was given a data
\* source (which holds a sample), three actions have been handed to the
\* engine: heart rate, respiratory rate and exercise, in that order.
C11_SourceSamplePushed ==
    (data_source = "configured" /\ proc_pc = "p_sleep")
        => /\ Len(proc_actions) = 3
           /\ proc_actions[1].kind = "heart_rate"
           /\ proc_actions[2].kind = "respiratory_rate"
           /\ proc_actions[3].kind = "exercise"

\* C12: a buffer changes and an action is handed to the engine only in a tick
\* whose fetch returned data; a tick whose fetch returned None or raised goes
\* on to a sleep; and the processing thread ends only at its loop head with
\* the running flag false.
C12_EmptyFetchSkipsTick ==
    [][/\ (\/ hr_buffer' # hr_buffer \/ rr_buffer' # rr_buffer
           \/ activity_buffer' # activity_buffer
           \/ Len(proc_actions') > Len(proc_actions))
            => (wearable_data # <<>> /\ wearable_data' = wearable_data)
       /\ (proc_pc = "p_fetch" /\ proc_pc' # "p_fetch" /\ wearable_data' = <<>>)
            => (proc_pc' \in {"p_sleep", "p_errsleep"} /\ proc_actions' = <<>>)
       /\ (proc_pc \in {"p_sleep", "p_errsleep"} /\ proc_pc' # proc_pc)
            => proc_pc' = "p_loop"
       /\ (proc_pc' = "p_done" /\ proc_pc # "p_done")
            => (proc_pc = "p_loop" /\ ~proc_running)]_vars

\* a tick whose fetch returned None has reached its sleep without an action
C12_Witness ==
    /\ proc_pc = "p_sleep" /\ wearable_data = <<>> /\ proc_running
    /\ data_source = "configured" /\ proc_actions = <<>>

\* the last k elements of a sequence
LastK(q, k) == SubSeq(q, Len(q) - k + 1, Len(q))

\* C13: the n-th value returned by _smooth_data is the mean (sum over count)
\* of the last min(n, 5) values passed, the buffer holds the last min(n, 5)
\* values in the order passed, and 10,20,30,40,50,60 gives
\* 10,15,20,25,30,40.
C13_SmoothingMean ==
    /\ Len(smooth_out) = Len(smooth_in)
    /\ smooth_buf = LastK(smooth_in, Min(Len(smooth_in), 5))
    /\ \A n \in 1..Len(smooth_in) :
          /\ smooth_out[n].n = Min(n, 5)
          /\ smooth_out[n].sum = SeqSum(LastK(SubSeq(smooth_in, 1, n), Min(n, 5)))
    /\ smooth_in = <<10, 20, 30, 40, 50, 60>>
          => \A n \in 1..6 :
                smooth_out[n].sum = <<10, 15, 20, 25, 30, 40>>[n] * smooth_out[n].n

C13_Witness ==
    /\ smooth_in = <<10, 20, 30, 40, 50, 60>>
    /\ smooth_out[6] = [sum |-> 200, n |-> 5]

\* C14: after any start_workout with an engine the stored intensity is within
\* [0, 1] (0..1000 thousandths), the stored duration at least 0.1 minute and
\* end_time = start_time + 60 * duration; the call leaves the controller
\* active, started at the current time, and returns True.  Without an engine
\* the call returns False and changes no field.
C14_StartClamps ==
    /\ [](w_workout_type # "none"
            => /\ w_engine = "present"
               /\ w_intensity >= 0 /\ w_intensity <= 1000
               /\ w_duration_minutes >= 1
               /\ 10 * w_end_time = 10 * w_start_time + 60 * w_duration_minutes)
    /\ [][StartWorkout(WorkoutTypes, IntensityInputs, DurationInputs)
            => IF w_engine = "present"
               THEN /\ w_active' /\ w_start_time' = clock
                    /\ w_ret' = [op |-> "start_workout", value |-> TRUE]
               ELSE /\ w_ret' = [op |-> "start_workout", value |-> FALSE]
                    /\ UNCHANGED <<w_active, w_intensity, w_end_time,
                                   w_duration_minutes, w_start_time,
                                   w_workout_type>>]_vars

\* start_workout(intensity below 0, duration below 0.1) has stored 0 and 0.1
C14_Witness ==
    /\ w_active /\ w_ret = [op |-> "start_workout", value |-> TRUE]
    /\ w_intensity = 0 /\ w_duration_minutes = 1
    /\ w_start_time = 60 /\ w_end_time = 66

\* C15: a call of get_current_intensity made while the controller is idle, or
\* at or after end_time, returns 0; made at or after end_time it leaves the
\* controller idle; and an idle controller becomes active only by a
\* start_workout.
C15_IdleReturnsZero ==
    /\ []((w_obs.called /\ (~w_obs.was_active \/ w_obs.elapsed >= w_obs.total))
            => w_obs.value.num = 0)
    /\ [][(GetCurrentIntensity /\ clock >= w_end_time) => ~w_active']_vars
    /\ [][(~w_active /\ w_active')
            => (w_ret' = [op |-> "start_workout", value |-> TRUE]
                /\ w_start_time' = clock)]_vars

\* a call at the end time of an active workout returned 0 and left it idle
C15_Witness ==
    /\ w_obs.called /\ w_obs.was_active /\ w_obs.elapsed = w_obs.total
    /\ w_obs.intensity > 0 /\ w_obs.value.num = 0 /\ ~w_active

\* C16: a completed apply_to_engine has handed exactly one exercise action,
\* carrying the intensity it got, to the engine when that intensity exceeds
\* 0.001, and none otherwise, in which case it returned False; the intensity
\* it gets is 0 when the controller is idle or the workout is over.
C16_ApplyAboveEpsilon ==
    /\ [](/\ Len(w_actions) <= 1
          /\ w_apply_ret = "True" => Len(w_actions) = 1
          /\ (w_pc = "w_idle" /\ w_apply_ret # "none")
                => IF w_local.num > w_local.den /\ w_engine = "present"
                   THEN w_actions = <<[kind |-> "exercise", intensity |-> w_local]>>
                   ELSE w_actions = <<>> /\ w_apply_ret = "False")
    /\ [][(w_pc = "w_idle" /\ w_pc' = "w_got"
           /\ (~w_active \/ clock >= w_end_time)) => w_local'.num = 0]_vars

\* an active workout of intensity exactly 0.001: no action, False
C16_Witness ==
    /\ w_pc = "w_idle" /\ w_apply_ret = "False" /\ w_active
    /\ w_local = [num |-> 1, den |-> 1] /\ w_actions = <<>>

\* C17: get_current_intensity on an active ramp_up workout returns 0.2 * max
\* at elapsed fraction 0 and max at elapsed fraction 1; on a ramp_down workout
\* max at fraction 0 and 0.2 * max at fraction 1.
C17_RampEndpoints ==
    (w_obs.called /\ w_obs.was_active)
        => /\ (w_obs.workout_type = "ramp_up" /\ w_obs.elapsed = 0)
                => 10 * w_obs.value.num = 2 * w_obs.intensity * w_obs.value.den
           /\ (w_obs.workout_type = "ramp_up" /\ w_obs.elapsed = w_obs.total)
                => w_obs.value.num = w_obs.intensity * w_obs.value.den
           /\ (w_obs.workout_type = "ramp_down" /\ w_obs.elapsed = 0)
                => w_obs.value.num = w_obs.intensity * w_obs.value.den
           /\ (w_obs.workout_type = "ramp_down" /\ w_obs.elapsed = w_obs.total)
                => 10 * w_obs.value.num = 2 * w_obs.intensity * w_obs.value.den

\* C18: get_current_intensity on an active interval workout that is not over
\* returns the full intensity throughout the 1st, 3rd, ... 120-second segment
\* of elapsed time and 40% of it throughout the 2nd, 4th, ...
C18_IntervalSegments ==
    (w_obs.called /\ w_obs.was_active /\ w_obs.workout_type = "interval"
     /\ w_obs.elapsed < w_obs.total)
        => IF (w_obs.elapsed \div 120) % 2 = 0
           THEN w_obs.value.num = w_obs.intensity * w_obs.value.den
           ELSE 10 * w_obs.value.num = 4 * w_obs.intensity * w_obs.value.den

\* C19: after start_hangover_simulation has returned True with a severity of
\* at least 0.01, exactly one fluid-loss action with rate 0.1 + 0.4 * severity
\* (in thousandths: 100 + 4 * hundredths of severity) has been handed to the
\* engine by that call.
C19_InitialDehydration ==
    (h_ret = [op |-> "start_hangover_simulation", value |-> TRUE]
     /\ h_severity >= 1)
        => /\ Len(h_actions) = 1
           /\ h_actions[1].kind = "hemorrhage"
           /\ h_actions[1].rate = 100 + 4 * h_severity

\* C20: apply_intervention changes an intervention level or issues an engine
\* action only while the controller is active, and a call that returns True
\* returns while the controller is active.
C20_InterventionOnlyActive ==
    [][/\ h_interventions' # h_interventions /\ ~h_active'
            => h_ret'.op = "start_hangover_simulation"
       /\ (h_pc = "h_lock" /\ h_pc' = "h_idle" /\ ~h_active)
            => (h_ret' = [op |-> "apply_intervention", value |-> FALSE]
                /\ h_interventions' = h_interventions /\ h_actions' = <<>>)]_vars

\* C21 (as claimed): a call of apply_intervention for hydration or electrolytes
\* that finds the controller active and completes while it is active stores
\* the level clamped to [0, 1] and issues exactly one engine action, a fluid
\* administration or a substance infusion, for every level.
C21_InterventionAlwaysIssues ==
    [][(h_pc = "h_lock" /\ h_pc' = "h_idle" /\ h_active
        /\ h_arg.intervention_type \in {"hydration", "electrolytes"})
         => /\ h_interventions'[h_arg.intervention_type] =
                   Max(0, Min(100, h_arg.level))
            /\ Len(h_actions') = 1
            /\ h_actions'[1].kind =
                   IF h_arg.intervention_type = "hydration"
                   THEN "fluid_administration" ELSE "substance_infusion"]_vars

\* C21 (amended): such a call stores the clamped level; it issues exactly one
\* engine action of its kind when the clamped level is at least 0.1, and no
\* engine action when it is below 0.1; it returns True either way.
C21_InterventionIssuesFromTenth ==
    [][(h_pc = "h_lock" /\ h_pc' = "h_idle" /\ h_active
        /\ h_arg.intervention_type \in {"hydration", "electrolytes"})
         => /\ h_interventions'[h_arg.intervention_type] =
                   Max(0, Min(100, h_arg.level))
            /\ h_ret' = [op |-> "apply_intervention", value |-> TRUE]
            /\ IF Max(0, Min(100, h_arg.level)) >= 10
               THEN /\ Len(h_actions') = 1
                    /\ h_actions'[1].kind =
                          IF h_arg.intervention_type = "hydration"
                          THEN "fluid_administration" ELSE "substance_infusion"
               ELSE h_actions' = <<>>]_vars

\* apply_intervention('hydration', 1.5) has stored 1.0 and issued the fluid
\* administration of 2000 mL at 10 mL/s
C21_Witness ==
    /\ h_active /\ h_ret = [op |-> "apply_intervention", value |-> TRUE]
    /\ h_interventions["hydration"] = 100
    /\ h_actions = <<[kind |-> "fluid_administration", volume |-> 2000,
                      rate |-> 10000]>>

\* C22: recovery_progress is always within [0, 1]; only a
\* start_hangover_simulation makes it smaller; whenever it is 0.99 or more it
\* is exactly 1.0 and the controller is inactive, so an active controller has
\* progress below 0.99.
C22_ProgressBounded ==
    /\ [](/\ h_recovery_progress.num >= 0
          /\ h_recovery_progress.num <= h_recovery_progress.den
          /\ 100 * h_recovery_progress.num >= 99 * h_recovery_progress.den
                => (h_recovery_progress = One /\ ~h_active))
    /\ [][FracLess(h_recovery_progress', h_recovery_progress)
            => StartHangoverSimulation(RecoverySeverities)]_vars

\* an update has completed a recovery
C22_Witness ==
    /\ h_recovery_progress = One /\ ~h_active
    /\ h_ret = [op |-> "update_recovery_progress", value |-> TRUE]

\* the levels of C23: hydration, electrolytes and rest at 0.5, the others at 0
MidLevels ==
    [k \in Levers |-> IF k \in {"hydration", "electrolytes", "rest"} THEN 50 ELSE 0]

\* C23 (as claimed): the first update of a session with hydration,
\* electrolytes and rest at 0.5, a positive time after the start, leaves a
\* progress strictly greater than elapsed / 86400 capped at 1, the progress
\* of a session without interventions after the same time.
C23_MidLevelsAhead ==
    [][(h_pc \in {"h_ulock", "h_apply_ulock"} /\ h_pc' # h_pc
        /\ h_recovery_progress = Zero /\ h_last_update_time = h_start_time
        /\ h_interventions = MidLevels /\ clock > h_start_time)
         => FracLess(IF clock - h_start_time >= 86400 THEN One
                     ELSE [num |-> clock - h_start_time, den |-> 86400],
                     h_recovery_progress')]_vars

\* C23 (amended): it is strictly greater as long as the elapsed time is below
\* 0.99 * 86400 seconds; from then on both sessions are at 1.0.
C23_MidLevelsAheadUntilComplete ==
    [][(h_pc \in {"h_ulock", "h_apply_ulock"} /\ h_pc' # h_pc
        /\ h_recovery_progress = Zero /\ h_last_update_time = h_start_time
        /\ h_interventions = MidLevels /\ clock > h_start_time)
         => IF 100 * (clock - h_start_time) < 99 * 86400
            THEN FracLess([num |-> clock - h_start_time, den |-> 86400],
                          h_recovery_progress')
            ELSE h_recovery_progress' = One]_vars

\* severity 0.7, the three levels at 0.5, half a day: progress 1/2 * (1 +
\* 600 / 340) = 47/34 capped, so the recovery is complete; with severity 0.7
\* nothing below completion is reachable in half-day steps, so the witness is
\* the completed session whose levels are the mid levels
C23_Witness ==
    /\ h_interventions = MidLevels /\ h_recovery_progress = One
    /\ h_last_update_time = h_start_time + 43200

\* C24: the rate at which update_recovery_progress advances the progress is
\* at most 6 times the base rate, whatever the severity and the levels.
C24_RateAtMostSixfold ==
    ~FracLess([num |-> 6, den |-> 1], rate_factor(h_interventions, h_severity))

\* C25 (as claimed): the first update of a session of severity 0.7 without
\* interventions, t seconds after the start, leaves progress t / 86400 / 1.7.
C25_BaselineScaledBySeverity ==
    [][(h_pc \in {"h_ulock", "h_apply_ulock"} /\ h_pc' # h_pc
        /\ h_recovery_progress = Zero /\ h_last_update_time = h_start_time
        /\ h_interventions = [k \in Levers |-> 0] /\ h_severity = 70)
         => 17 * 86400 * h_recovery_progress'.num
                = 10 * (clock - h_start_time) * h_recovery_progress'.den]_vars

\* C25 (amended): it leaves progress t / 86400, whatever the severity, while
\* t is below 0.99 * 86400, and 1.0 from then on.
C25_BaselineUnscaled ==
    [][(h_pc \in {"h_ulock", "h_apply_ulock"} /\ h_pc' # h_pc
        /\ h_recovery_progress = Zero /\ h_last_update_time = h_start_time
        /\ h_interventions = [k \in Levers |-> 0] /\ h_severity = 70)
         => IF 100 * (clock - h_start_time) < 99 * 86400
            THEN 86400 * h_recovery_progress'.num
                    = (clock - h_start_time) * h_recovery_progress'.den
            ELSE h_recovery_progress' = One]_vars

\* severity 0.7, no intervention, half a day: progress 1/2
C25_Witness ==
    /\ h_severity = 70 /\ h_interventions = [k \in Levers |-> 0]
    /\ h_recovery_progress = [num |-> 1, den |-> 2]
    /\ h_last_update_time = h_start_time + 43200 /\ h_active

\* C26: apply_to_engine on a controller that is inactive or has no engine
\* returns False and leaves active, progress, last update time, severity and
\* interventions as they are, with no engine action; a call on an active
\* controller issues no engine action, changes progress, last update time and
\* active only in the body of update_recovery_progress, and nothing else.
C26_ApplyNoOp ==
    /\ [][(HangoverApplyCheck /\ (h_engine = "none" \/ ~h_active))
            => /\ h_ret' = [op |-> "apply_to_engine", value |-> FALSE]
               /\ h_pc' = "h_idle" /\ h_actions' = <<>>
               /\ UNCHANGED <<h_active, h_recovery_progress, h_last_update_time,
                              h_severity, h_interventions, h_start_time>>]_vars
    /\ [][(h_pc \in {"h_apply", "h_apply_ulock", "h_apply_effects"} /\ h_pc' # h_pc)
            => /\ h_actions' = <<>>
               /\ UNCHANGED <<h_severity, h_interventions, h_start_time, h_last_actions>>
               /\ h_pc # "h_apply_ulock"
                    => UNCHANGED <<h_active, h_recovery_progress,
                                   h_last_update_time>>]_vars

\* apply_to_engine has returned False on a controller whose recovery is complete
C26_Witness ==
    /\ h_ret = [op |-> "apply_to_engine", value |-> FALSE]
    /\ ~h_active /\ h_recovery_progress = One /\ h_engine = "present"

\* C27: get_state_trend returns 'rare', 'occasional', 'frequent', 'dominant'
\* according to f = occurrences / total_records being below 0.1, in
\* [0.1, 0.3), in [0.3, 0.7), or 0.7 and more, where total_records counts
\* the records of the window and occurrences those of them with the flag,
\* occurrences <= total_records <= length of the history; when no record is
\* in the window it returns 'neutral' with 0 and 0.
C27_TrendClasses ==
    LET duration == trend_args.duration_seconds
        window == {i \in DOMAIN trend_history :
                      /\ trend_history[i].timestamp = "valid"
                      /\ trend_history[i].age <= duration}
        flagged == {i \in window :
                      /\ trend_args.state_key \in DOMAIN trend_history[i].all_states
                      /\ trend_history[i].all_states[trend_args.state_key]}
        occ == trend_ret.occurrences
        tot == trend_ret.total_records
    IN  trend_ret # NoTrend =>
          /\ occ <= tot /\ tot <= Len(trend_history)
          /\ occ = Cardinality(flagged) /\ tot = Cardinality(window)
          /\ IF window = {} THEN trend_ret.trend = "neutral" /\ occ = 0 /\ tot = 0
             ELSE /\ trend_ret.trend = "rare" <=> 10 * occ < tot
                  /\ trend_ret.trend = "occasional"
                        <=> (tot <= 10 * occ /\ 10 * occ < 3 * tot)
                  /\ trend_ret.trend = "frequent"
                        <=> (3 * tot <= 10 * occ /\ 10 * occ < 7 * tot)
                  /\ trend_ret.trend = "dominant" <=> 7 * tot <= 10 * occ

\* one flagged record among ten of the window, with older and unreadable
\* records in the history: f = 0.1 is 'occasional'
C27_Witness ==
    /\ trend_ret = [trend |-> "occasional", occurrences |-> 1, total_records |-> 10]
    /\ Len(trend_history) = 13

\* C28: while no set_thresholds call is in progress the thresholds are the
\* ones asked for by the calls made so far, with the three original keys
\* and no other; every flag the simulation thread computes from then on is
\* the comparison of the latest value with the threshold asked for; an item
\* whose key is not a threshold leaves keys and values as they are.
C28_ThresholdsAtRuntime ==
    /\ [](/\ DOMAIN thresholds = {"low_oxygen_threshold", "high_hrv_threshold",
                                  "elevated_cardiac_output"}
          /\ th_pending = <<>> => thresholds = th_requested)
    /\ [][(sim_pc = "s_flags" /\ sim_idx' # sim_idx /\ th_pending = <<>>)
            => current_states'[FlagOrder[sim_idx]]
                  = compute_flag(FlagOrder[sim_idx], latest_values, th_requested)]_vars
    /\ [][(th_pending # <<>> /\ th_pending' = Tail(th_pending)
           /\ Head(th_pending).key \notin {"low_oxygen_threshold",
                    "high_hrv_threshold", "elevated_cardiac_output"})
            => thresholds' = thresholds]_vars

\* the stepper was running with the default thresholds, set_thresholds raised
\* low_oxygen_threshold to 96 and returned, and the tick that followed found
\* the twin dizzy at an oxygen saturation of 95
C28_Witness ==
    /\ sim_running /\ sim_pc = "s_sleep" /\ th_pending = <<>>
    /\ thresholds.low_oxygen_threshold = 96
    /\ latest_values.oxygen_saturation = 95
    /\ current_states.is_dizzy

\* C29: every channel of the resolver's list has a callable
\* update_avatar_state and every channel of the coordinator's list is an
\* OutputChannel; a registration appends the channel and returns True in
\* that case only, and otherwise returns False and leaves the list as it
\* is; the coordinator's list is never empty.
C29_RegistrationGuarded ==
    /\ [](/\ \A i \in DOMAIN asm_output_channels :
                has_update_avatar_state(asm_output_channels[i])
          /\ \A i \in DOMAIN sys_output_channels :
                is_output_channel(sys_output_channels[i])
          /\ sys_output_channels # <<>>)
    /\ [][RegisterOutputChannel =>
            IF reg_ret'.value
            THEN /\ reg_ret'.channel \in {"ConsoleOutputChannel", "OutputChannel", "duck"}
                 /\ asm_output_channels' = Append(asm_output_channels, reg_ret'.channel)
            ELSE /\ reg_ret'.channel \in {"attribute", "object"}
                 /\ asm_output_channels' = asm_output_channels]_vars
    /\ [][SysRegisterOutputChannel =>
            IF reg_ret'.value
            THEN /\ reg_ret'.channel \in {"ConsoleOutputChannel", "OutputChannel"}
                 /\ sys_output_channels' = Append(sys_output_channels, reg_ret'.channel)
            ELSE /\ reg_ret'.channel \in {"duck", "attribute", "object"}
                 /\ sys_output_channels' = sys_output_channels]_vars

\* a coordinator constructed with channels none of which was valid holds the
\* console channel, and a later registration of a duck-typed channel was
\* refused
C29_Witness ==
    /\ sys_output_channels = <<"ConsoleOutputChannel">>
    /\ reg_ret = [op |-> "_register_output_channel", channel |-> "duck",
                  value |-> FALSE]
    /\ asm_output_channels = <<"duck">>

\* C30: every metric series and the state series of the web feed hold the
\* last 100 of the points delivered to them, in the order of arrival (all
\* of them while fewer than 100 were delivered), and no call of
\* update_avatar_state raises to its caller.
C30_WebSeriesBounded ==
    /\ \A m \in WebMetrics :
         /\ Len(web_values[m]) <= 100
         /\ web_values[m] = LastK(web_delivered[m], Min(100, Len(web_delivered[m])))
    /\ Len(web_states) <= 100
    /\ web_states = LastK(web_delivered["states"],
                          Min(100, Len(web_delivered["states"])))
    /\ web_outcome # "raised"

\* more than 100 records have arrived, the last one with a heart rate that
\* is not a number
C30_Witness ==
    /\ web_updates = 102 /\ Len(web_states) = 100
    /\ Len(web_delivered["heart_rate"]) = 101
    /\ web_states[1] = 3 /\ web_values["heart_rate"][100] = 101

\* C40: every exercise action the ingestion stage hands to the engine has an
\* intensity between 0 and 1.
C40_ExerciseIntensityInUnit ==
    \A i \in DOMAIN proc_actions :
        proc_actions[i].kind = "exercise"
            => /\ proc_actions[i].value.num >= 0
               /\ proc_actions[i].value.num <= proc_actions[i].value.den

\* C39: whatever the workout type and the elapsed time, the value returned by
\* get_current_intensity is at least 0 and at most the stored maximum
\* intensity, which is itself between 0 and 1.
C39_IntensityWithinMax ==
    /\ 0 <= w_intensity /\ w_intensity <= 1000
    /\ w_obs.called
         => /\ w_obs.value.den > 0
            /\ 0 <= w_obs.value.num
            /\ w_obs.value.num <= w_obs.intensity * w_obs.value.den
            /\ w_obs.value.num <= 1000 * w_obs.value.den

\* a ramp_up workout asked for with intensity 1.5, seen at 7/8 of its time:
\* 0.2 + 0.8 * 7/8 = 0.9
C39_Witness ==
    /\ w_obs.called /\ w_obs.was_active /\ w_obs.workout_type = "ramp_up"
    /\ w_obs.intensity = 1000 /\ w_obs.elapsed = 210 /\ w_obs.total = 240
    /\ 10 * w_obs.value.num = 9000 * w_obs.value.den

\* C36: a start_hangover_simulation on a controller with an engine returns
\* True and leaves it active with progress 0, every intervention level 0 and
\* the severity argument clamped to [0, 1], whatever the state before; on a
\* controller without engine it returns False and changes nothing.
C36_StartResets ==
    [][\A severity \in RecoverySeverities :
         StartHangoverSimulation({severity}) =>
           IF h_engine = "none"
           THEN /\ h_ret' = [op |-> "start_hangover_simulation", value |-> FALSE]
                /\ UNCHANGED <<h_active, h_severity, h_recovery_progress,
                               h_interventions, h_start_time, h_last_update_time>>
           ELSE /\ h_ret' = [op |-> "start_hangover_simulation", value |-> TRUE]
                /\ h_active'
                /\ h_recovery_progress' = Zero
                /\ \A k \in Levers : h_interventions'[k] = 0
                /\ h_severity' = IF severity < 0 THEN 0
                                 ELSE IF severity > 100 THEN 100 ELSE severity]_vars

\* a session started with severity 1.5 after a session that was completed
\* with interventions
C36_Witness ==
    /\ h_ret = [op |-> "start_hangover_simulation", value |-> TRUE]
    /\ h_update_ret = One /\ h_calls > 0
    /\ h_active /\ h_recovery_progress = Zero /\ h_severity = 100
    /\ \A k \in Levers : h_interventions[k] = 0

\* C38: every call of update_recovery_progress returns the value that
\* recovery_progress has when the call returns, on an active and on an
\* inactive controller.
C38_UpdateReturnsProgress ==
    [][(\/ (h_pc = "h_idle" /\ UpdateCheckActive /\ ~h_active)
        \/ (h_pc = "h_ulock" /\ h_pc' = "h_idle"))
         => h_update_ret' = h_recovery_progress']_vars

\* the seconds between the start of the session and its last update
C37_Elapsed == h_last_update_time - h_start_time

\* the weighted sum of the six levels with the multipliers of the claim, in
\* thousandths
C37_Weighted ==
    5 * h_interventions["hydration"] + 3 * h_interventions["electrolytes"]
    + 3 * h_interventions["nutrients"] + 4 * h_interventions["rest"]
    + 2 * h_interventions["exercise"] + 3 * h_interventions["medication"]

\* C37 (as claimed): each update advances the progress by base_rate * (1 + 5 *
\* recovery_rate) * elapsed with recovery_rate = sum of level * multiplier /
\* (1 + severity), and in a session without interventions the progress is
\* the time from the start to the last update over 86400, however many
\* updates were made.
C37_BaselineLinear ==
    /\ [][(h_pc \in {"h_ulock", "h_apply_ulock"} /\ h_pc' # h_pc)
            => LET elapsed == Reduce([num |-> clock - h_last_update_time, den |-> 86400])
                   factor == Reduce([num |-> 2 * (100 + h_severity) + C37_Weighted,
                                     den |-> 2 * (100 + h_severity)])
                   sum == FracAdd(h_recovery_progress,
                                  Reduce([num |-> elapsed.num * factor.num,
                                          den |-> elapsed.den * factor.den]))
               IN  h_recovery_progress' = IF FracLess(One, sum) THEN One ELSE sum]_vars
    /\ []((\A k \in Levers : h_interventions[k] = 0)
            => 86400 * h_recovery_progress.num = C37_Elapsed * h_recovery_progress.den)

\* C37 (amended): the same, with the progress set to 1.0 as soon as it has
\* reached 0.99: without interventions it is elapsed / 86400 while that is
\* below 0.99 and 1.0 from then on.
C37_BaselineLinearUntilComplete ==
    /\ [][(h_pc \in {"h_ulock", "h_apply_ulock"} /\ h_pc' # h_pc)
            => LET elapsed == Reduce([num |-> clock - h_last_update_time, den |-> 86400])
                   factor == Reduce([num |-> 2 * (100 + h_severity) + C37_Weighted,
                                     den |-> 2 * (100 + h_severity)])
                   sum == FracAdd(h_recovery_progress,
                                  Reduce([num |-> elapsed.num * factor.num,
                                          den |-> elapsed.den * factor.den]))
               IN  h_recovery_progress' =
                      IF 100 * sum.num >= 99 * sum.den THEN One ELSE sum]_vars
    /\ []((\A k \in Levers : h_interventions[k] = 0)
            => IF 100 * C37_Elapsed < 99 * 86400
               THEN 86400 * h_recovery_progress.num
                       = C37_Elapsed * h_recovery_progress.den
               ELSE h_recovery_progress = One /\ ~h_active)

\* severity 0.7, no intervention, two updates 28600 s apart: progress
\* 57200 / 86400 = 143 / 216
C37_Witness ==
    /\ h_severity = 70 /\ \A k \in Levers : h_interventions[k] = 0
    /\ h_active /\ C37_Elapsed = 57200 /\ clock = 57200
    /\ h_recovery_progress = [num |-> 143, den |-> 216]
    /\ h_update_ret = h_recovery_progress

\* C34: no engine call is in progress in a thread that holds the lock of the
\* hangover controller: the caller of apply_intervention is never inside
\* process_action within "with self.lock".
C34_NoEngineCallUnderLock == ~(hangover_lock_held /\ hangover_in_engine)


\* C35: at most one loop thread of the coordinator is alive at any time, also
\* when start() follows a stop() whose 3-second join timed out.
C35_AtMostOneLoopTask == Cardinality({t \in CoordThreads : coord_thread_alive(t)}) <= 1


\* C33: a get_state_history call concurrent with the display loop never returns
\* more than max_history_length records.
C33_ReaderSeesAtMostCapacity == hist_seen <= max_history_length

\* C31: a snapshot returned by get_latest_values holds the values of one
\* sampling tick (or, before a tick has written a key, the constructor's
\* zero), never values of two different ticks.
C31_SnapshotOfOneTick ==
    disp_values # [k \in {} |-> 0] =>
        \E e \in DOMAIN EngineSamples :
            \A i \in 1..Len(ReadOrder) :
                disp_values[ReadOrder[i]] \in {0, EngineSamples[e][ReadOrder[i]]}

\* C32: the flags of the record appended to the history and broadcast are the
\* thresholds applied to the physiological values of that same record.
C32_RecordConsistent ==
    state_record # NoRecord =>
        \A i \in 1..Len(FlagOrder) :
            state_record.all_states[FlagOrder[i]] =
                compute_flag(FlagOrder[i], state_record.physiological_values,
                             thresholds)

====
